---- MODULE Spec2Model ----
(***************************************************************************)
(* Work distribution and double-buffered execution pipeline of the IPU     *)
(* path tracer: WorkList, LoadBalancer, and the render loop of             *)
(* PathTracerApp::execute.                                                 *)
(***************************************************************************)
EXTENDS Integers, Sequences, FiniteSets, TLC

\* ------------------------------------------------------------------------
\* Bounds of the model
\* ------------------------------------------------------------------------
\* lanes (tiles, jobs) of the target
MaxLanes == 2
\* items of a work list buffer
MaxLen == 4
\* path segments one sample of one pixel adds to pathLength
MaxPath == 2
\* worker contexts per tile
MaxWorkers == 1
\* samples per pixel asked for (the steps of the render loop)
MaxSteps == 3
\* packets the remote UI sends during one run
MaxPackets == 1
\* items of a work list buffer when a remote UI is attached
MaxUiLen == 2

\* ------------------------------------------------------------------------
\* Program constants
\* ------------------------------------------------------------------------
\* std::numeric_limits<std::uint16_t>::max(), the padding coordinate
dummyCoord == 65535

\* ------------------------------------------------------------------------
\* TraceRecord
\* ------------------------------------------------------------------------
TraceRecord(pixelU, pixelV) ==
  [u |-> pixelU, v |-> pixelV, r |-> 0, g |-> 0, b |-> 0,
   sampleCount |-> 0, pathLength |-> 0]

IsPadding(t) == t.u = dummyCoord /\ t.v = dummyCoord

\* ------------------------------------------------------------------------
\* Generic helpers on sequences
\* ------------------------------------------------------------------------
RECURSIVE Flatten(_)
Flatten(ss) == IF ss = <<>> THEN <<>> ELSE Head(ss) \o Flatten(Tail(ss))

\* The number of positions of s holding x
Count(s, x) == Cardinality({i \in 1..Len(s) : s[i] = x})

\* The (u,v) coordinates of the non padding items of a buffer, as a sequence
RECURSIVE Coords(_)
Coords(s) ==
  IF s = <<>> THEN <<>>
  ELSE IF IsPadding(Head(s)) THEN Coords(Tail(s))
       ELSE <<<<Head(s).u, Head(s).v>>>> \o Coords(Tail(s))

\* Two sequences hold the same multiset of values
SameMultiset(s, t) ==
  /\ Len(s) = Len(t)
  /\ \A i \in 1..Len(s) : Count(s, s[i]) = Count(t, s[i])

\* ------------------------------------------------------------------------
\* LoadBalancer::allocateWorkByPathLength
\* ------------------------------------------------------------------------

\* The outcomes of std::sort with the comparator a.pathLength < b.pathLength:
\* every ordering of the items that is ascending in pathLength (std::sort
\* leaves the order of equivalent elements unspecified).
RECURSIVE SortByPathLength(_, _)
SortByPathLength(buf, idx) ==
  IF idx = {} THEN {<<>>}
  ELSE LET least == {i \in idx : \A j \in idx : buf[i].pathLength <= buf[j].pathLength}
       IN UNION {{<<buf[i]>> \o rest : rest \in SortByPathLength(buf, idx \ {i})} : i \in least}

SortOutcomes(buf) == SortByPathLength(buf, 1..Len(buf))

\* Dereference of an iterator at offset k from sorted.begin().  A read
\* outside [begin, end) is undefined: it yields the arbitrary record g.
Deref(sorted, k, g) == IF k >= 0 /\ k < Len(sorted) THEN sorted[k + 1] ELSE g

InRange(sorted, k) == k >= 0 /\ k < Len(sorted)

\* The state of one call before its first statement
LBEntry(numJobs, buf) ==
  [pc |-> "sort", jobs |-> numJobs, input |-> buf, sorted |-> <<>>,
   perTileWork |-> <<>>, shortItr |-> 0, longItr |-> 0, t |-> 1,
   ub |-> FALSE, written |-> 0, result |-> buf]

LBIdle == [LBEntry(1, <<>>) EXCEPT !.pc = "idle"]

\* auto sorted = work.inactive(); std::sort(...); perTileWork(jobs.size())
LBSort(s, o) ==
  [s EXCEPT !.pc = "init_itr",
            !.sorted = o.sorted,
            !.perTileWork = [i \in 1..s.jobs |-> <<>>]]

\* shortItr = sorted.begin(); longItr = sorted.end() - 1; the log line
\* dereferences both iterators.
LBInitItr(s, o) ==
  LET bad == ~InRange(s.sorted, 0) \/ ~InRange(s.sorted, Len(s.sorted) - 1)
  IN [s EXCEPT !.pc = IF bad /\ o.crash THEN "crashed" ELSE "take",
               !.shortItr = 0,
               !.longItr = Len(s.sorted) - 1,
               !.t = 1,
               !.ub = s.ub \/ bad]

\* One iteration of  for (auto& t : perTileWork): the lane takes one item
\* from each end of the sorted list and both iterators move inward.
LBTake(s, o) ==
  LET bad == ~InRange(s.sorted, s.shortItr) \/ ~InRange(s.sorted, s.longItr)
      a == Deref(s.sorted, s.shortItr, o.garbage)
      b == Deref(s.sorted, s.longItr, o.garbage)
  IN [s EXCEPT !.pc = IF bad /\ o.crash THEN "crashed"
                      ELSE IF s.t = s.jobs THEN "check" ELSE "take",
               !.perTileWork[s.t] = @ \o <<a, b>>,
               !.shortItr = @ + 1,
               !.longItr = @ - 1,
               !.t = @ + 1,
               !.ub = s.ub \/ bad]

\* if (longItr <= shortItr) break;   evaluated after the for loop
LBCheck(s, o) ==
  IF s.longItr <= s.shortItr
  THEN [s EXCEPT !.pc = "flatten"]
  ELSE [s EXCEPT !.pc = "take", !.t = 1]

\* The call without the flattening loop: the list stays in sorted order
LBFlatten_keepSorted(s, o) == [s EXCEPT !.pc = "assign", !.written = 0]

\* Flatten the per tile lists into sorted, from sorted.begin() on.  Writes
\* past sorted.end() are undefined and do not land in the vector.
LBFlatten(s, o) ==
  LET flat == Flatten(s.perTileWork)
      bad == Len(flat) > Len(s.sorted)
  IN [s EXCEPT !.pc = IF bad /\ o.crash THEN "crashed" ELSE "assign",
               !.sorted = [i \in 1..Len(s.sorted) |->
                             IF i <= Len(flat) THEN flat[i] ELSE s.sorted[i]],
               !.written = Len(flat),
               !.ub = s.ub \/ bad]

\* work.inactive() = sorted;
LBAssign(s, o) == [s EXCEPT !.pc = "done", !.result = s.sorted]

LBStep(s, o) ==
  CASE s.pc = "sort" -> LBSort(s, o)
    [] s.pc = "init_itr" -> LBInitItr(s, o)
    [] s.pc = "take" -> LBTake(s, o)
    [] s.pc = "check" -> LBCheck(s, o)
    [] s.pc = "flatten" -> LBFlatten(s, o)
    [] s.pc = "assign" -> LBAssign(s, o)
    [] OTHER -> s

LBRunning(s) == s.pc \in {"sort", "init_itr", "take", "check", "flatten", "assign"}

\* The whole call, for one resolution o of its unspecified behaviour
RECURSIVE allocateWorkByPathLength(_, _)
allocateWorkByPathLength(s, o) ==
  IF LBRunning(s) THEN allocateWorkByPathLength(LBStep(s, o), o) ELSE s

\* ------------------------------------------------------------------------
\* WorkList
\* ------------------------------------------------------------------------
\* The two vectors of a WorkList own one heap block each
Stores == {"A", "B"}

\* WorkList::WorkList(size): two vectors of size default constructed records
WorkListCtor(size) == [i \in 1..size |-> TraceRecord(0, 0)]

\* The mutant of WorkListSwap that copies instead of exchanging
WorkListSwap_copy(w) ==
  [activeWork |-> w.inactiveWork, inactiveWork |-> w.inactiveWork,
   activeStore |-> w.inactiveStore, inactiveStore |-> w.inactiveStore,
   threw |-> (w.inactiveWork = <<>>)]

\* The mutant of WorkListSwap that tests the wrong vector
WorkListSwap_testInactive(w) ==
  [activeWork |-> w.inactiveWork, inactiveWork |-> w.activeWork,
   activeStore |-> w.inactiveStore, inactiveStore |-> w.activeStore,
   threw |-> (w.activeWork = <<>>)]

\* WorkList::swap(): std::swap exchanges the vectors (contents and heap
\* blocks); afterwards an empty activeWork raises std::logic_error.
WorkListSwap(w) ==
  [activeWork |-> w.inactiveWork, inactiveWork |-> w.activeWork,
   activeStore |-> w.inactiveStore, inactiveStore |-> w.activeStore,
   threw |-> (w.inactiveWork = <<>>)]

\* ------------------------------------------------------------------------
\* Initial work list: calculateMaxRaysPerTile, createWorkListForImage,
\* createTracingJobs, LoadBalancer::randomiseWorkList
\* ------------------------------------------------------------------------
Max(a, b) == IF a >= b THEN a ELSE b

\* std::ceil(totalRayCount / (float)numTiles)
CeilDiv(a, b) == (a + b - 1) \div b

calculateMaxRaysPerTile(imageWidth, imageHeight, numTiles, numWorkers) ==
  Max(numWorkers, CeilDiv(imageWidth * imageHeight, numTiles))

\* Every pixel of the image in raster order: item k is (k mod w, k div w)
createWorkListForImage(imageWidth, imageHeight) ==
  [k \in 1..imageWidth * imageHeight |->
     TraceRecord((k - 1) % imageWidth, (k - 1) \div imageWidth)]

\* The mutant of createTracingJobs that does not pad the work list
createTracingJobs_nopad(imageWidth, imageHeight, numTiles, numWorkers) ==
  LET maxRaysPerTile == calculateMaxRaysPerTile(imageWidth, imageHeight, numTiles, numWorkers)
      workList == createWorkListForImage(imageWidth, imageHeight)
  IN [t \in 1..numTiles |->
        SubSeq(workList, Max(1, (t - 1) * maxRaysPerTile + 1),
               IF t * maxRaysPerTile <= Len(workList) THEN t * maxRaysPerTile
               ELSE Len(workList))]

\* The padded work list cut into numTiles chunks of maxRaysPerTile items
createTracingJobs(imageWidth, imageHeight, numTiles, numWorkers) ==
  LET maxRaysPerTile == calculateMaxRaysPerTile(imageWidth, imageHeight, numTiles, numWorkers)
      paddedRayCount == maxRaysPerTile * numTiles
      pixels == createWorkListForImage(imageWidth, imageHeight)
      workList == [k \in 1..Max(paddedRayCount, Len(pixels)) |->
                     IF k <= Len(pixels) THEN pixels[k]
                     ELSE TraceRecord(dummyCoord, dummyCoord)]
  IN [t \in 1..numTiles |->
        SubSeq(workList, (t - 1) * maxRaysPerTile + 1, t * maxRaysPerTile)]

\* The permutations std::shuffle may produce.  The seed is fixed, so one
\* build always yields the same permutation, but which one is left to the
\* library: the model explores the list, its reversal and its rotation by one.
Rotate(list, k) ==
  [i \in 1..Len(list) |-> list[((i - 1 + k) % Len(list)) + 1]]

Reverse(list) == [i \in 1..Len(list) |-> list[Len(list) + 1 - i]]

ShuffleOutcomes(list) ==
  IF list = <<>> THEN {<<>>}
  ELSE {list, Reverse(list), Rotate(list, 1)}

\* LoadBalancer::randomiseWorkList: the new inactive list, given the
\* permutation the shuffle applies
randomiseWorkList(jobs) == ShuffleOutcomes(Flatten(jobs))

\* ------------------------------------------------------------------------
\* Inputs of the function level specifications
\* ------------------------------------------------------------------------
PathLengths == 0..MaxPath

\* Item i of an input buffer is pixel (i,0) or a padding item
InputItems(i) ==
  {[TraceRecord(c, c) EXCEPT !.v = IF c = dummyCoord THEN dummyCoord ELSE 0,
                             !.pathLength = p, !.sampleCount = 1]
     : c \in {i - 1, dummyCoord}, p \in PathLengths}

RECURSIVE InputBuffers(_)
InputBuffers(n) ==
  IF n = 0 THEN {<<>>}
  ELSE {Append(b, x) : b \in InputBuffers(n - 1), x \in InputItems(n)}

Garbage == {[TraceRecord(7, 7) EXCEPT !.pathLength = 1]}

VARIABLES
  lb,                 \* the call of allocateWorkByPathLength in progress
  activeWork,         \* WorkList::activeWork (contents)
  inactiveWork,       \* WorkList::inactiveWork (contents)
  activeStore,        \* the heap block of activeWork
  inactiveStore,      \* the heap block of inactiveWork
  wl,                 \* progress and history of the object under test
  args,               \* the program options and the target's tile/worker counts
  pc,                 \* position of the driver thread in execute
  step,               \* loop counter of the render loop
  samplesPerIpuStep,  \* PathTracerApp::samplesPerIpuStep
  deviceSampleLimit,  \* on device copy of samplesPerIpuStep
  streamPtr,          \* host block the trace buffer streams are connected to
  traceBuffer,        \* the trace buffer tensor on the device
  film,               \* traceState->film (the HDR image)
  job,                \* AsyncTask: a submitted task has not been joined
  hostPc,             \* position of the host task thread
  taskStep,           \* the value of step captured by the task
  uiServer,           \* the InterfaceServer exists
  stateUpdated,       \* InterfaceServer::stateUpdated
  uiState,            \* InterfaceServer::state
  state,              \* the driver's copy of the UI state
  hist                \* history of the run (bookkeeping for the properties)

workVars == <<activeWork, inactiveWork, activeStore, inactiveStore>>

loopVars ==
  <<args, pc, step, samplesPerIpuStep, deviceSampleLimit, streamPtr,
    traceBuffer, film, job, hostPc, taskStep, uiServer, stateUpdated,
    uiState, state, hist>>

vars ==
  <<lb, activeWork, inactiveWork, activeStore, inactiveStore, wl, args, pc,
    step, samplesPerIpuStep, deviceSampleLimit, streamPtr, traceBuffer, film,
    job, hostPc, taskStep, uiServer, stateUpdated, uiState, state, hist>>

\* InterfaceServer::State after construction (numbers stand for versions of
\* the value: 0 is the default)
StateCtor ==
  [envRotationDegrees |-> 0, exposure |-> 0, gamma |-> 0, fov |-> 0,
   newNif |-> "", stop |-> FALSE, detach |-> FALSE]

HistInit ==
  [dispatched |-> 0, batchOf |-> [s \in Stores |-> 0], accumulated |-> <<>>,
   saved |-> 0, runs |-> 0, waitSinceRun |-> FALSE, taskStore |-> "none",
   dispatchedAtRun |-> 0, conflict |-> FALSE, deviceOffActive |-> FALSE,
   restarts |-> 0, packets |-> 0, exit |-> "none", first |-> FALSE,
   firstAtRun |-> FALSE, lbInvoked |-> FALSE, lbStore |-> "none",
   lbResult |-> <<>>]

\* The render loop is not part of the function level specifications
LoopIdle ==
  /\ args = [imageWidth |-> 1, imageHeight |-> 1, numTiles |-> 1,
             numWorkers |-> 1, samples |-> 1, samplesPerStep |-> 1,
             interactiveSamples |-> 1, loadBalanceEnabled |-> FALSE,
             saveInterval |-> 1, uiPort |-> 0]
  /\ pc = "idle"
  /\ step = 0
  /\ samplesPerIpuStep = 1
  /\ deviceSampleLimit = 1
  /\ streamPtr = "none"
  /\ traceBuffer = <<>>
  /\ film = <<>>
  /\ job = FALSE
  /\ hostPc = "idle"
  /\ taskStep = 0
  /\ uiServer = FALSE
  /\ stateUpdated = FALSE
  /\ uiState = StateCtor
  /\ state = StateCtor
  /\ hist = HistInit

WLIdle == [pc |-> "idle", hist |-> <<>>]

TheWorkList ==
  [activeWork |-> activeWork, inactiveWork |-> inactiveWork,
   activeStore |-> activeStore, inactiveStore |-> inactiveStore]

\* ------------------------------------------------------------------------
\* Specification of allocateWorkByPathLength, statement by statement
\* ------------------------------------------------------------------------
InitLB ==
  \E numJobs \in 1..MaxLanes, n \in 0..MaxLen :
    \E buf \in InputBuffers(n) :
      /\ inactiveWork = buf
      /\ activeWork = buf
      /\ activeStore = "A"
      /\ inactiveStore = "B"
      /\ wl = WLIdle
      /\ lb = LBEntry(numJobs, buf)
      /\ LoopIdle

Oracles(s) ==
  {[sorted |-> q, garbage |-> g, crash |-> c] :
     q \in (IF s.pc = "sort" THEN SortOutcomes(s.input) ELSE {<<>>}),
     g \in Garbage, c \in BOOLEAN}

LBSortStep ==
  /\ lb.pc = "sort"
  /\ \E o \in Oracles(lb) : lb' = LBStep(lb, o)
  /\ UNCHANGED <<workVars, wl, loopVars>>

LBInitItrStep ==
  /\ lb.pc = "init_itr"
  /\ \E o \in Oracles(lb) : lb' = LBStep(lb, o)
  /\ UNCHANGED <<workVars, wl, loopVars>>

LBTakeStep ==
  /\ lb.pc = "take"
  /\ \E o \in Oracles(lb) : lb' = LBStep(lb, o)
  /\ UNCHANGED <<workVars, wl, loopVars>>

LBCheckStep ==
  /\ lb.pc = "check"
  /\ \E o \in Oracles(lb) : lb' = LBStep(lb, o)
  /\ UNCHANGED <<workVars, wl, loopVars>>

LBFlattenStep ==
  /\ lb.pc = "flatten"
  /\ \E o \in Oracles(lb) : lb' = LBStep(lb, o)
  /\ UNCHANGED <<workVars, wl, loopVars>>

LBAssignStep ==
  /\ lb.pc = "assign"
  /\ \E o \in Oracles(lb) :
       /\ lb' = LBStep(lb, o)
       /\ inactiveWork' = lb'.result
  /\ UNCHANGED <<activeWork, activeStore, inactiveStore, wl, loopVars>>

NextLB ==
  \/ LBSortStep
  \/ LBInitItrStep
  \/ LBTakeStep
  \/ LBCheckStep
  \/ LBFlattenStep
  \/ LBAssignStep

SpecLB == InitLB /\ [][NextLB]_vars

\* ------------------------------------------------------------------------
\* allocateWorkByPathLength on unbalanced work lists: one lane's segment
\* holds the items with long paths, the other lanes hold the short ones
\* ------------------------------------------------------------------------

\* <<lanes, itemsPerLane>> of the work lists explored
BalShapes == {<<2, 2>>, <<3, 2>>, <<2, 4>>}

\* Segment k of a buffer of lanes x m items (the items of lane k)
LaneSegment(buf, m, k) == SubSeq(buf, (k - 1) * m + 1, k * m)

\* Lane h holds only items above the threshold, every other lane only items
\* at or below it
Unbalanced(buf, lanes, m, h, threshold) ==
  \A k \in 1..lanes : \A i \in 1..m :
    (LaneSegment(buf, m, k)[i].pathLength > threshold) <=> (k = h)

InitBal ==
  \E shape \in BalShapes :
    \E p \in [1..shape[1] * shape[2] -> PathLengths] :
      LET buf == [i \in 1..shape[1] * shape[2] |->
                    [TraceRecord(i - 1, 0) EXCEPT !.pathLength = p[i],
                                                  !.sampleCount = 1]]
      IN /\ \E h \in 1..shape[1], threshold \in PathLengths :
              Unbalanced(buf, shape[1], shape[2], h, threshold)
         /\ inactiveWork = buf
         /\ activeWork = buf
         /\ activeStore = "A"
         /\ inactiveStore = "B"
         /\ wl = WLIdle
         /\ lb = LBEntry(shape[1], buf)
         /\ LoopIdle

SpecBal == InitBal /\ [][NextLB]_vars

\* ------------------------------------------------------------------------
\* Specification of WorkList::swap on arbitrary buffers
\* ------------------------------------------------------------------------
MaxSwaps == 2

\* active() and inactive() return mutable references, so a WorkList can
\* hold any two buffers
InitWL ==
  \E n1 \in 0..MaxLen - 2, n2 \in 0..MaxLen - 2 :
    \E a \in InputBuffers(n1), i \in InputBuffers(n2) :
      /\ activeWork = a
      /\ inactiveWork = i
      /\ activeStore = "A"
      /\ inactiveStore = "B"
      /\ wl = [pc |-> "ready", hist |-> <<>>]
      /\ lb = LBIdle
      /\ LoopIdle

WLSwapCall ==
  /\ wl.pc = "ready"
  /\ Len(wl.hist) < MaxSwaps
  /\ LET w == WorkListSwap(TheWorkList)
     IN /\ activeWork' = w.activeWork
        /\ inactiveWork' = w.inactiveWork
        /\ activeStore' = w.activeStore
        /\ inactiveStore' = w.inactiveStore
        /\ wl' = [pc |-> IF w.threw THEN "threw" ELSE "ready",
                  hist |-> Append(wl.hist, TheWorkList)]
  /\ UNCHANGED <<lb, loopVars>>

NextWL == WLSwapCall

SpecWL == InitWL /\ [][NextWL]_vars

\* ------------------------------------------------------------------------
\* The render loop: PathTracerApp::execute, the host task it submits, the
\* device programs it runs and the communication thread of the UI server
\* ------------------------------------------------------------------------
sampleCountReversionStep == 5

roundSamplesPerPixel(samplesPerPixel, samplesPerStep) ==
  IF samplesPerPixel % samplesPerStep # 0
  THEN samplesPerPixel + samplesPerStep - (samplesPerPixel % samplesPerStep)
  ELSE samplesPerPixel

\* The mutant of Steps that divides without rounding up first
Steps_truncated == args.samples \div args.samplesPerStep

\* const auto steps = samplesPerPixel / samplesPerIpuStep
Steps ==
  roundSamplesPerPixel(args.samples, args.samplesPerStep) \div args.samplesPerStep

MaxRaysPerTile ==
  calculateMaxRaysPerTile(args.imageWidth, args.imageHeight, args.numTiles,
                          args.numWorkers)

\* AccumulatedImage(w, h): every pixel of hdrImage holds the empty sum (zero)
\* and the tone mapped image is empty
AccumulatedImageCtor(w, h) ==
  [cols |-> w, rows |-> h,
   at |-> [px \in (0..h - 1) \X (0..w - 1) |-> <<>>],
   image |-> <<>>]

\* The mutant of accumulate that stores the colour as (r,g,b)
RECURSIVE accumulate_rgb(_, _)
accumulate_rgb(hdr, traces) ==
  IF traces = <<>> THEN hdr
  ELSE LET t == Head(traces)
           next == IF t.u >= hdr.cols \/ t.v >= hdr.rows THEN hdr
                   ELSE [hdr EXCEPT !.at[<<t.v, t.u>>] =
                           Append(@, [bgr |-> <<t.r, t.g, t.b>>,
                                      sampleCount |-> t.sampleCount])]
       IN accumulate_rgb(next, Tail(traces))

\* The mutant of accumulate that clamps coordinates to the image instead of
\* skipping the item
RECURSIVE accumulate_clamp(_, _)
accumulate_clamp(hdr, traces) ==
  IF traces = <<>> THEN hdr
  ELSE LET t == Head(traces)
           c == IF t.u >= hdr.cols THEN hdr.cols - 1 ELSE t.u
           r == IF t.v >= hdr.rows THEN hdr.rows - 1 ELSE t.v
           next == [hdr EXCEPT !.at[<<r, c>>] =
                           Append(@, [bgr |-> <<t.b, t.g, t.r>>,
                                      sampleCount |-> t.sampleCount])]
       IN accumulate_clamp(next, Tail(traces))

\* AccumulatedImage::accumulate.  A pixel holds the terms added to it so
\* far, each the (b,g,r) colour of an item and the sampleCount it is
\* divided by.
RECURSIVE accumulate(_, _)
accumulate(hdr, traces) ==
  IF traces = <<>> THEN hdr
  ELSE LET t == Head(traces)
           c == t.u
           r == t.v
           next == IF c >= hdr.cols \/ r >= hdr.rows THEN hdr
                   ELSE [hdr EXCEPT !.at[<<r, c>>] =
                           Append(@, [bgr |-> <<t.b, t.g, t.r>>,
                                      sampleCount |-> t.sampleCount])]
       IN accumulate(next, Tail(traces))

\* One channel triple of the tone mapped image: the pixel's sum divided by
\* the step count, scaled by 2^exposure, raised to 1/gamma and quantised;
\* the model keeps the operands
ToneMap(terms, divisor, exposure, gamma) ==
  [of |-> terms, step |-> divisor, exposure |-> exposure, gamma |-> gamma]

\* The mutant of updateLdrImage that divides hdrImage by step in place
updateLdrImage_inplace(hdr, divisor, exposure, gamma) ==
  LET scaled == [px \in DOMAIN hdr.at |->
                   [k \in 1..Len(hdr.at[px]) |->
                      [hdr.at[px][k] EXCEPT !.sampleCount = @ * divisor]]]
  IN [hdr EXCEPT !.at = scaled,
                 !.image = [px \in DOMAIN hdr.at |->
                              ToneMap(scaled[px], 1, exposure, gamma)]]

\* AccumulatedImage::updateLdrImage: the object after the call; the value
\* returned is its member image
updateLdrImage(hdr, divisor, exposure, gamma) ==
  [hdr EXCEPT !.image = [px \in DOMAIN hdr.at |->
                           ToneMap(hdr.at[px], divisor, exposure, gamma)]]

\* AccumulatedImage::saveImages: writes updateLdrImage(step, exposure, gamma)
\* and hdrImage / step to files
saveImages(hdr, divisor, exposure, gamma) == updateLdrImage(hdr, divisor, exposure, gamma)

\* ------------------------------------------------------------------------
\* Specification of AccumulatedImage: one accumulate and two tone mappings
\* of an image that is empty or holds one earlier item
\* ------------------------------------------------------------------------
MaxAccWidth == 2
MaxAccLen == 2

\* The coordinates of the items of a batch: the pixels of row 0 up to one
\* column beyond the widest image, and the padding coordinate
AccCoords == {<<u, 0>> : u \in 0..MaxAccWidth} \cup {<<dummyCoord, dummyCoord>>}

\* Item i of a batch: its colour tells the items apart
AccItem(i, uv, sc) ==
  [TraceRecord(uv[1], uv[2]) EXCEPT !.r = 10 * i + 1, !.g = 10 * i + 2,
                                    !.b = 10 * i + 3, !.sampleCount = sc]

InBounds(hdr, t) == ~(t.u >= hdr.cols \/ t.v >= hdr.rows)

\* The batches of n items with the sample count sc, no pixel of the image
\* named twice
RECURSIVE AccBatches(_, _)
AccBatches(n, sc) ==
  IF n = 0 THEN {<<>>}
  ELSE {Append(b, AccItem(n, uv, sc)) :
          b \in AccBatches(n - 1, sc),
          uv \in AccCoords}

DistinctPixels(hdr, b) ==
  \A i, j \in 1..Len(b) :
    (i # j /\ InBounds(hdr, b[i])) => <<b[i].u, b[i].v>> # <<b[j].u, b[j].v>>

AccInputs(hdr) ==
  {b \in UNION {AccBatches(n, sc) : n \in 0..MaxAccLen, sc \in 1..2} :
     DistinctPixels(hdr, b)}

ToneMapArgs ==
  {[step |-> 1, exposure |-> 0, gamma |-> 2], [step |-> 2, exposure |-> 0, gamma |-> 2],
   [step |-> 1, exposure |-> 1, gamma |-> 2], [step |-> 1, exposure |-> 0, gamma |-> 1]}

InitAcc ==
  /\ \E w \in 1..MaxAccWidth :
       \E prior \in {b \in AccInputs(AccumulatedImageCtor(w, 1)) : Len(b) <= 1} :
         film = accumulate(AccumulatedImageCtor(w, 1), prior)
  /\ traceBuffer = <<>>
  /\ wl = [pc |-> "fresh", hist |-> <<>>]
  /\ lb = LBIdle
  /\ activeWork = <<>>
  /\ inactiveWork = <<>>
  /\ activeStore = "A"
  /\ inactiveStore = "B"
  /\ args = [imageWidth |-> 1, imageHeight |-> 1, numTiles |-> 1,
             numWorkers |-> 1, samples |-> 1, samplesPerStep |-> 1,
             interactiveSamples |-> 1, loadBalanceEnabled |-> FALSE,
             saveInterval |-> 1, uiPort |-> 0]
  /\ pc = "idle"
  /\ step = 0
  /\ samplesPerIpuStep = 1
  /\ deviceSampleLimit = 1
  /\ streamPtr = "none"
  /\ job = FALSE
  /\ hostPc = "idle"
  /\ taskStep = 0
  /\ uiServer = FALSE
  /\ stateUpdated = FALSE
  /\ uiState = StateCtor
  /\ state = StateCtor
  /\ hist = HistInit

\* film.accumulate(batch)
AccumulateCall ==
  /\ wl.pc = "fresh"
  /\ \E batch \in AccInputs(film) :
       /\ traceBuffer' = batch
       /\ film' = accumulate(film, batch)
  /\ wl' = [pc |-> "accumulated", hist |-> Append(wl.hist, [film |-> film])]
  /\ UNCHANGED <<lb, workVars, args, pc, step, samplesPerIpuStep,
                 deviceSampleLimit, streamPtr, job, hostPc, taskStep, uiServer,
                 stateUpdated, uiState, state, hist>>

\* film.updateLdrImage(step, exposure, gamma), directly or from saveImages
ToneMapCall ==
  /\ wl.pc \in {"accumulated", "mapped"}
  /\ \E a \in ToneMapArgs, save \in BOOLEAN :
       /\ film' = IF save THEN saveImages(film, a.step, a.exposure, a.gamma)
                  ELSE updateLdrImage(film, a.step, a.exposure, a.gamma)
       /\ wl' = [pc |-> IF wl.pc = "accumulated" THEN "mapped" ELSE "remapped",
                 hist |-> Append(wl.hist, [film |-> film, args |-> a])]
  /\ UNCHANGED <<lb, workVars, args, pc, step, samplesPerIpuStep,
                 deviceSampleLimit, streamPtr, traceBuffer, job, hostPc,
                 taskStep, uiServer, stateUpdated, uiState, state, hist>>

NextAcc ==
  \/ AccumulateCall
  \/ ToneMapCall

SpecAcc == InitAcc /\ [][NextAcc]_vars

\* contributions.size() of one sample of each item of buf: in the scene the
\* model renders the path of pixel column u has 1 + (u mod MaxPath) segments
DeviceOutcomes(buf) ==
  [i \in 1..Len(buf) |-> 1 + (buf[i].u % MaxPath)]

\* path_trace: every record of the trace buffer gains the samples of the
\* batch (AccumulateContributions::compute runs once per sample)
pathTrace(buf, incs, limit) ==
  [i \in 1..Len(buf) |->
     [buf[i] EXCEPT !.pathLength = (@ + limit * incs[i]) % 65536,
                    !.sampleCount = (@ + limit) % 65536,
                    !.r = @ + 1, !.g = @ + 2, !.b = @ + 3]]

\* The host memory at a stream pointer
BufferAt(ptr) == IF ptr = activeStore THEN activeWork ELSE inactiveWork

\* The mutant of connectActiveWorkListStreams that connects the other buffer
connectActiveWorkListStreams_inactive(w) == w.inactiveStore

\* connectActiveWorkListStreams: both streams point at active()
connectActiveWorkListStreams(w) == w.activeStore

\* The mutant of DriverNext that does not join before the swap
DriverNext_nowait(p) ==
  CASE p = "dispatch" -> "swap"
    [] p = "wait" -> "swap"
    [] p = "swap" -> "run"
    [] p = "run" -> "end_iter"
    [] OTHER -> "loop_test"

\* The mutant of DriverNext that swaps before it joins
DriverNext_swapFirst(p) ==
  CASE p = "dispatch" -> "swap"
    [] p = "swap" -> "wait"
    [] p = "wait" -> "run"
    [] p = "run" -> "end_iter"
    [] OTHER -> "loop_test"

\* The mutant of DriverNext that submits the host task before the swap
DriverNext_runFirst(p) ==
  CASE p = "dispatch" -> "wait"
    [] p = "wait" -> "run"
    [] p = "run" -> "swap"
    [] p = "swap" -> "end_iter"
    [] OTHER -> "loop_test"

\* The mutant of DriverNext without the swap of the buffers
DriverNext_noswap(p) ==
  CASE p = "dispatch" -> "wait"
    [] p = "wait" -> "run"
    [] p = "run" -> "end_iter"
    [] OTHER -> "loop_test"

\* The order of the statements of one iteration after the UI handling:
\* device programs, waitForCompletion, swap and reconnect, run, statistics
DriverNext(p) ==
  CASE p = "dispatch" -> "wait"
    [] p = "wait" -> "swap"
    [] p = "swap" -> "run"
    [] p = "run" -> "end_iter"
    [] OTHER -> "loop_test"

\* The mutant of LoopExit that returns without the final join
LoopExit_nojoin == "finished"

\* Where the loop leaves to: hostProcessing.waitForCompletion() after it
LoopExit == "final_wait"

Alive == pc \notin {"idle", "crashed", "fatal", "finished"}

\* The length of the work list the options a make: numTiles x maxRaysPerTile
WorkListLength(a) ==
  a.numTiles * calculateMaxRaysPerTile(a.imageWidth, a.imageHeight,
                                       a.numTiles, a.numWorkers)

\* The options the model explores; the work list is at most MaxLen long, and
\* at most MaxUiLen long when a remote UI is attached (uiPort # 0); two
\* samples per step are explored for the work list of one item without UI
ArgSets ==
  {a \in [imageWidth : 1..MaxLen, imageHeight : {1}, numTiles : 1..MaxLanes,
          numWorkers : 1..MaxWorkers, samples : 1..MaxSteps,
          samplesPerStep : {1, 2}, interactiveSamples : {1},
          loadBalanceEnabled : BOOLEAN, saveInterval : {2}, uiPort : {0, 1}] :
     /\ WorkListLength(a) <= IF a.uiPort = 0 THEN MaxLen ELSE MaxUiLen
     /\ a.samplesPerStep = 1 \/ (a.uiPort = 0 /\ WorkListLength(a) = 1)}

\* The state after construction, for a set of options
InitFrom(argSets) ==
  /\ args \in argSets
  /\ pc = "start"
  /\ step = 0
  /\ samplesPerIpuStep = args.samplesPerStep
  /\ deviceSampleLimit = args.samplesPerStep
  /\ streamPtr = "none"
  /\ traceBuffer = <<>>
  /\ film = <<>>
  /\ activeWork = <<>>
  /\ inactiveWork = <<>>
  /\ activeStore = "A"
  /\ inactiveStore = "B"
  /\ job = FALSE
  /\ hostPc = "idle"
  /\ taskStep = 0
  /\ uiServer = (args.uiPort # 0)
  /\ stateUpdated = FALSE
  /\ uiState = StateCtor
  /\ state = StateCtor
  /\ hist = HistInit
  /\ lb = LBIdle
  /\ wl = WLIdle

Init == InitFrom(ArgSets)

\* The mutant of initialiseState that leaves active() as constructed
initialiseState_nocopy(shuffled) ==
  [activeWork |-> WorkListCtor(args.imageWidth * args.imageHeight),
   inactiveWork |-> shuffled,
   activeStore |-> "A", inactiveStore |-> "B"]

\* PathTracerApp::initialiseState: the work list after randomiseWorkList
\* has produced the list shuffled and active() was assigned from inactive()
initialiseState(shuffled) ==
  [activeWork |-> shuffled, inactiveWork |-> shuffled,
   activeStore |-> "A", inactiveStore |-> "B"]

InitialiseState ==
  /\ pc = "start"
  /\ \E shuffled \in randomiseWorkList(createTracingJobs(args.imageWidth,
                        args.imageHeight, args.numTiles, args.numWorkers)) :
       LET w == initialiseState(shuffled)
       IN /\ activeWork' = w.activeWork
          /\ inactiveWork' = w.inactiveWork
          /\ activeStore' = w.activeStore
          /\ inactiveStore' = w.inactiveStore
          /\ streamPtr' = connectActiveWorkListStreams(w)
  /\ film' = AccumulatedImageCtor(args.imageWidth, args.imageHeight)
  /\ step' = 1
  /\ hist' = [hist EXCEPT !.first = TRUE]
  /\ pc' = "loop_test"
  /\ UNCHANGED <<lb, wl, args, samplesPerIpuStep, deviceSampleLimit,
                 traceBuffer, job, hostPc, taskStep, uiServer, stateUpdated,
                 uiState, state>>

\* for (step = 1; step <= steps; ++step) { if (uiServer && stateChanged())
LoopTest ==
  /\ pc = "loop_test"
  /\ IF step > Steps
     THEN /\ pc' = LoopExit
          /\ hist' = [hist EXCEPT !.exit = "steps"]
          /\ UNCHANGED samplesPerIpuStep
     ELSE IF uiServer /\ stateUpdated
     THEN /\ pc' = "consume"
          /\ UNCHANGED <<hist, samplesPerIpuStep>>
     ELSE /\ pc' = "dispatch"
          /\ samplesPerIpuStep' =
               IF step = sampleCountReversionStep THEN args.samplesPerStep
               ELSE samplesPerIpuStep
          /\ UNCHANGED hist
  /\ UNCHANGED <<lb, wl, workVars, args, step, deviceSampleLimit, streamPtr,
                 traceBuffer, film, job, hostPc, taskStep, uiServer,
                 stateUpdated, uiState, state>>

\* InterfaceServer::consumeState: State tmp = state;
ConsumeCopy ==
  /\ pc = "consume"
  /\ state' = uiState
  /\ pc' = "consume_clear"
  /\ UNCHANGED <<lb, wl, workVars, args, step, samplesPerIpuStep,
                 deviceSampleLimit, streamPtr, traceBuffer, film, job, hostPc,
                 taskStep, uiServer, stateUpdated, uiState, hist>>

\* InterfaceServer::consumeState: stateUpdated = false; state.newNif.clear();
ConsumeClear ==
  /\ pc = "consume_clear"
  /\ stateUpdated' = FALSE
  /\ uiState' = [uiState EXCEPT !.newNif = ""]
  /\ pc' = "process"
  /\ UNCHANGED <<lb, wl, workVars, args, step, samplesPerIpuStep,
                 deviceSampleLimit, streamPtr, traceBuffer, film, job, hostPc,
                 taskStep, uiServer, state, hist>>

\* PathTracerApp::processUserInput
processUserInput(st) ==
  IF st.stop THEN "Stop" ELSE IF st.detach THEN "Disconnected" ELSE "Restart"

\* processUserInput and the branches on its status
ProcessUserInput ==
  /\ pc = "process"
  /\ LET status == processUserInput(state)
     IN CASE status = "Stop" ->
               /\ uiServer' = FALSE
               /\ pc' = LoopExit
               /\ hist' = [hist EXCEPT !.exit = "stop"]
               /\ UNCHANGED <<step, samplesPerIpuStep>>
          [] status = "Disconnected" ->
               /\ uiServer' = FALSE
               /\ pc' = "dispatch"
               /\ UNCHANGED <<step, samplesPerIpuStep, hist>>
          [] OTHER ->
               /\ step' = 1
               /\ samplesPerIpuStep' = args.interactiveSamples
               /\ pc' = "dispatch"
               /\ hist' = [hist EXCEPT !.restarts = @ + 1, !.first = TRUE]
               /\ UNCHANGED uiServer
  /\ UNCHANGED <<lb, wl, workVars, args, deviceSampleLimit, streamPtr,
                 traceBuffer, film, job, hostPc, taskStep, stateUpdated,
                 uiState, state>>

\* init_render_settings on steps 1 and 5, then setup, path_trace and
\* read_results: the block the streams point at is copied to the device,
\* traced, and copied back.
DeviceDispatch ==
  /\ pc = "dispatch"
  /\ LET incs == DeviceOutcomes(BufferAt(streamPtr))
         limit == IF step = 1 \/ step = sampleCountReversionStep
                  THEN samplesPerIpuStep ELSE deviceSampleLimit
         out == pathTrace(BufferAt(streamPtr), incs, limit)
     IN /\ deviceSampleLimit' = limit
        /\ traceBuffer' = out
        /\ activeWork' = IF streamPtr = activeStore THEN out ELSE activeWork
        /\ inactiveWork' = IF streamPtr = activeStore THEN inactiveWork ELSE out
  /\ hist' = [hist EXCEPT !.dispatched = @ + 1,
                          !.batchOf[streamPtr] = hist.dispatched + 1,
                          !.conflict = @ \/ (job /\ streamPtr = hist.taskStore),
                          !.deviceOffActive = @ \/ streamPtr # activeStore]
  /\ pc' = DriverNext("dispatch")
  /\ UNCHANGED <<lb, wl, activeStore, inactiveStore, args, step,
                 samplesPerIpuStep, streamPtr, film, job, hostPc, taskStep,
                 uiServer, stateUpdated, uiState, state>>

\* AsyncTask::waitForCompletion: returns once the submitted task, if any,
\* has finished (spec section 4.4: blocks until the most recently submitted
\* work has finished, a no-op if nothing is pending)
waitForCompletion ==
  /\ job => hostPc = "idle"
  /\ job' = FALSE
  /\ hist' = [hist EXCEPT !.waitSinceRun = TRUE, !.taskStore = "none"]

WaitHost ==
  /\ pc = "wait"
  /\ waitForCompletion
  /\ pc' = DriverNext("wait")
  /\ UNCHANGED <<lb, wl, workVars, args, step, samplesPerIpuStep,
                 deviceSampleLimit, streamPtr, traceBuffer, film, hostPc,
                 taskStep, uiServer, stateUpdated, uiState, state>>

\* traceState->work.getWork().swap(); connectActiveWorkListStreams(engine);
Swap ==
  /\ pc = "swap"
  /\ LET w == WorkListSwap(TheWorkList)
     IN /\ activeWork' = w.activeWork
        /\ inactiveWork' = w.inactiveWork
        /\ activeStore' = w.activeStore
        /\ inactiveStore' = w.inactiveStore
        /\ streamPtr' = IF w.threw THEN streamPtr ELSE connectActiveWorkListStreams(w)
        /\ pc' = IF w.threw THEN "fatal" ELSE DriverNext("swap")
  /\ hist' = [hist EXCEPT !.conflict = @ \/ job]
  /\ UNCHANGED <<lb, wl, args, step, samplesPerIpuStep, deviceSampleLimit,
                 traceBuffer, film, job, hostPc, taskStep, uiServer,
                 stateUpdated, uiState, state>>

\* hostProcessing.run(...): AsyncTask::run rejects a second task while one
\* is pending (spec section 4.4); otherwise the task starts with step
\* captured by value.
RunHost ==
  /\ pc = "run"
  /\ IF job
     THEN /\ pc' = "fatal"
          /\ UNCHANGED <<job, hostPc, taskStep, hist>>
     ELSE /\ job' = TRUE
          /\ hostPc' = "accumulate"
          /\ taskStep' = step
          /\ hist' = [hist EXCEPT !.runs = @ + 1, !.waitSinceRun = FALSE,
                                  !.taskStore = inactiveStore,
                                  !.dispatchedAtRun = hist.dispatched,
                                  !.firstAtRun = hist.first,
                                  !.lbInvoked = FALSE, !.lbStore = "none",
                                  !.lbResult = <<>>]
          /\ pc' = DriverNext("run")
  /\ UNCHANGED <<lb, wl, workVars, args, step, samplesPerIpuStep,
                 deviceSampleLimit, streamPtr, traceBuffer, film, uiServer,
                 stateUpdated, uiState, state>>

\* log_stats, uiServer->updateSampleRate and ++step
EndIteration ==
  /\ pc = "end_iter"
  /\ step' = step + 1
  /\ hist' = [hist EXCEPT !.first = FALSE]
  /\ pc' = DriverNext("end_iter")
  /\ UNCHANGED <<lb, wl, workVars, args, samplesPerIpuStep, deviceSampleLimit,
                 streamPtr, traceBuffer, film, job, hostPc, taskStep, uiServer,
                 stateUpdated, uiState, state>>

\* hostProcessing.waitForCompletion() after the loop
FinalWait ==
  /\ pc = "final_wait"
  /\ waitForCompletion
  /\ pc' = "finished"
  /\ UNCHANGED <<lb, wl, workVars, args, step, samplesPerIpuStep,
                 deviceSampleLimit, streamPtr, traceBuffer, film, hostPc,
                 taskStep, uiServer, stateUpdated, uiState, state>>

\* ---- the host task ----

\* filmPtr->accumulate(workPtr->getWork().inactive());
HostAccumulate ==
  /\ Alive
  /\ hostPc = "accumulate"
  /\ film' = accumulate(film, inactiveWork)
  /\ hist' = [hist EXCEPT !.accumulated = Append(@, hist.batchOf[inactiveStore]),
                          !.conflict = @ \/ inactiveStore # hist.taskStore]
  /\ hostPc' = "ui_test"
  /\ UNCHANGED <<lb, wl, workVars, args, pc, step, samplesPerIpuStep,
                 deviceSampleLimit, streamPtr, traceBuffer, job, taskStep,
                 uiServer, stateUpdated, uiState, state>>

\* if (uiServer) {
HostUiTest ==
  /\ Alive
  /\ hostPc = "ui_test"
  /\ hostPc' = IF uiServer THEN "ui_send" ELSE "balance"
  /\ UNCHANGED <<lb, wl, workVars, args, pc, step, samplesPerIpuStep,
                 deviceSampleLimit, streamPtr, traceBuffer, film, job,
                 taskStep, uiServer, stateUpdated, uiState, state, hist>>

\* updateLdrImage, uiServer->sendPreviewImage, uiServer->updateProgress.
\* The server is captured by reference: using it after the driver has
\* destroyed it is undefined.
HostUiSend ==
  /\ Alive
  /\ hostPc = "ui_send"
  /\ \E crash \in BOOLEAN :
       IF ~uiServer /\ crash
       THEN pc' = "crashed" /\ hostPc' = hostPc
       ELSE pc' = pc /\ hostPc' = "balance"
  /\ UNCHANGED <<lb, wl, workVars, args, step, samplesPerIpuStep,
                 deviceSampleLimit, streamPtr, traceBuffer, film, job,
                 taskStep, uiServer, stateUpdated, uiState, state, hist>>

\* The mutant of runLoadBalancing that also balances on step 1
runLoadBalancing_everyStep(enabled, capturedStep) == enabled

\* The condition of the host task: if (loadBalanceEnabled && step > 1)
runLoadBalancing(enabled, capturedStep) == enabled /\ capturedStep > 1

\* if (loadBalanceEnabled && step > 1) workPtr->allocateWorkByPathLength(ipuJobs);
HostLoadBalance ==
  /\ Alive
  /\ hostPc = "balance"
  /\ IF runLoadBalancing(args.loadBalanceEnabled, taskStep)
     THEN \E o \in Oracles(LBEntry(args.numTiles, inactiveWork)) :
            LET res == allocateWorkByPathLength(LBEntry(args.numTiles, inactiveWork), o)
            IN /\ IF res.pc = "crashed"
                  THEN pc' = "crashed" /\ hostPc' = hostPc /\ UNCHANGED inactiveWork
                  ELSE pc' = pc /\ hostPc' = "save" /\ inactiveWork' = res.result
               /\ hist' = [hist EXCEPT
                             !.conflict = @ \/ inactiveStore # hist.taskStore,
                             !.lbInvoked = TRUE, !.lbStore = inactiveStore,
                             !.lbResult = IF res.pc = "crashed" THEN <<>>
                                          ELSE res.result]
     ELSE /\ pc' = pc /\ hostPc' = "save" /\ UNCHANGED inactiveWork
          /\ hist' = [hist EXCEPT
                        !.conflict = @ \/ inactiveStore # hist.taskStore]
  /\ UNCHANGED <<lb, wl, activeWork, activeStore, inactiveStore, args, step,
                 samplesPerIpuStep, deviceSampleLimit, streamPtr, traceBuffer,
                 film, job, taskStep, uiServer, stateUpdated, uiState, state>>

\* if (step % saveInterval == 0 || step == steps): the image goes to the UI
\* or to the output files; then the task returns.
HostSave ==
  /\ Alive
  /\ hostPc = "save"
  /\ hist' = IF taskStep % args.saveInterval = 0 \/ taskStep = Steps
             THEN [hist EXCEPT !.saved = Len(hist.accumulated)]
             ELSE hist
  /\ hostPc' = "idle"
  /\ UNCHANGED <<lb, wl, workVars, args, pc, step, samplesPerIpuStep,
                 deviceSampleLimit, streamPtr, traceBuffer, film, job,
                 taskStep, uiServer, stateUpdated, uiState, state>>

\* ---- the communication thread of the InterfaceServer ----
PacketTypes ==
  {"stop", "detach", "env_rotation", "exposure", "gamma", "fov", "load_nif"}

\* The mutant of Receive whose exposure and gamma subscribers set the flag
Receive_toneFlag(st, type, flag) ==
  CASE type = "env_rotation" -> [state |-> [st EXCEPT !.envRotationDegrees = 1], updated |-> TRUE]
    [] type = "detach" -> [state |-> [st EXCEPT !.detach = flag], updated |-> TRUE]
    [] type = "stop" -> [state |-> [st EXCEPT !.stop = flag], updated |-> TRUE]
    [] type = "exposure" -> [state |-> [st EXCEPT !.exposure = 1], updated |-> TRUE]
    [] type = "gamma" -> [state |-> [st EXCEPT !.gamma = 1], updated |-> TRUE]
    [] type = "fov" -> [state |-> [st EXCEPT !.fov = 1], updated |-> TRUE]
    [] OTHER -> [state |-> [st EXCEPT !.newNif = "nif"], updated |-> TRUE]

\* The subscriber of one inbound packet type: the field it deserialises
\* into and whether it sets stateUpdated
Receive(st, type, flag) ==
  CASE type = "env_rotation" -> [state |-> [st EXCEPT !.envRotationDegrees = 1], updated |-> TRUE]
    [] type = "detach" -> [state |-> [st EXCEPT !.detach = flag], updated |-> TRUE]
    [] type = "stop" -> [state |-> [st EXCEPT !.stop = flag], updated |-> TRUE]
    [] type = "exposure" -> [state |-> [st EXCEPT !.exposure = 1], updated |-> FALSE]
    [] type = "gamma" -> [state |-> [st EXCEPT !.gamma = 1], updated |-> FALSE]
    [] type = "fov" -> [state |-> [st EXCEPT !.fov = 1], updated |-> TRUE]
    [] OTHER -> [state |-> [st EXCEPT !.newNif = "nif"], updated |-> TRUE]

\* One packet arrives; the UI sends stop and detach with the value true
ReceivePacket ==
  /\ Alive
  /\ uiServer
  /\ hist.packets < MaxPackets
  /\ \E type \in PacketTypes, flag \in {TRUE} :
       LET rcv == Receive(uiState, type, flag)
       IN /\ uiState' = rcv.state
          /\ stateUpdated' = (stateUpdated \/ rcv.updated)
  /\ hist' = [hist EXCEPT !.packets = @ + 1]
  /\ UNCHANGED <<lb, wl, workVars, args, pc, step, samplesPerIpuStep,
                 deviceSampleLimit, streamPtr, traceBuffer, film, job, hostPc,
                 taskStep, uiServer, state>>

Next ==
  \/ InitialiseState
  \/ LoopTest
  \/ ConsumeCopy
  \/ ConsumeClear
  \/ ProcessUserInput
  \/ DeviceDispatch
  \/ WaitHost
  \/ Swap
  \/ RunHost
  \/ EndIteration
  \/ FinalWait
  \/ HostAccumulate
  \/ HostUiTest
  \/ HostUiSend
  \/ HostLoadBalance
  \/ HostSave
  \/ ReceivePacket

Spec == Init /\ [][Next]_vars

\* The render loop with load balancing on one tile that traces three
\* pixels (an odd number of items per lane), with and without the remote UI
OddLaneArgSets ==
  [imageWidth : {3}, imageHeight : {1}, numTiles : {1}, numWorkers : {1},
   samples : {MaxSteps}, samplesPerStep : {1}, interactiveSamples : {1},
   loadBalanceEnabled : {TRUE}, saveInterval : {2}, uiPort : {0, 1}]

InitOddLane == InitFrom(OddLaneArgSets)

SpecOddLane == InitOddLane /\ [][Next]_vars

\* The render loop with batches of 2^15 and 2^16 samples on a 1x1 image:
\* 2^16 samples and more reach a 16 bit sampleCount
ManySamplesArgSets ==
  [imageWidth : {1}, imageHeight : {1}, numTiles : {1}, numWorkers : {1},
   samples : {65536, 98304}, samplesPerStep : {32768, 65536},
   interactiveSamples : {1}, loadBalanceEnabled : BOOLEAN, saveInterval : {2},
   uiPort : {0, 1}]

InitManySamples == InitFrom(ManySamplesArgSets)

SpecManySamples == InitManySamples /\ [][Next]_vars

\* The statements of the driver thread
DriverThread ==
  \/ InitialiseState
  \/ LoopTest
  \/ ConsumeCopy
  \/ ConsumeClear
  \/ ProcessUserInput
  \/ DeviceDispatch
  \/ WaitHost
  \/ Swap
  \/ RunHost
  \/ EndIteration
  \/ FinalWait

\* ------------------------------------------------------------------------
\* Specification of PathTracerApp::defunctState.  processUserInput returns
\* Restart without calling defunctState in this revision of execute; this
\* specification calls it in the Restart branch, the place its comment
\* describes ("allocate new tracer state and then swap the new state with
\* the defunct state"), inside the order of statements of one iteration.
\* The application state is the record wl:
\*   heap               the PathTracerState objects allocated so far
\*   traceState         the object traceState points at
\*   defunctTraceState  the object defunctTraceState points at, or "null"
\*   streamed           the object whose active() the streams are connected to
\*   job, hostPc, task  the AsyncTask, its thread, and the pointers the
\*                      lambda captured with the values they pointed at
\* ------------------------------------------------------------------------
\* the iterations one run of the loop makes
MaxIterations == 3
\* the Restart events of one run
MaxRestarts == 2

\* The heap blocks a PathTracerState can be allocated at
StateObjects == {"P", "Q"}

\* PathTracerState(imageWidth, imageHeight): work(imageWidth * imageHeight),
\* film(imageWidth, imageHeight)
PathTracerStateCtor(imageWidth, imageHeight) ==
  [work |-> [activeWork |-> WorkListCtor(imageWidth * imageHeight),
             inactiveWork |-> WorkListCtor(imageWidth * imageHeight),
             activeStore |-> "A", inactiveStore |-> "B"],
   film |-> AccumulatedImageCtor(imageWidth, imageHeight)]

\* AccumulatedImage::reset: hdrImage = 0
reset(hdr) == [hdr EXCEPT !.at = [px \in DOMAIN hdr.at |-> <<>>]]

\* The mutant of defunctState that clears the state in use and does not swap
defunctState_inplace(a) ==
  [a EXCEPT
     !.heap[a.traceState].film = reset(@),
     !.heap[a.traceState].work.inactiveWork =
        a.heap[a.traceState].work.activeWork]

\* PathTracerApp::defunctState: the defunct object is reset, or a new one is
\* allocated when there is none; the pointers are swapped; both buffers of
\* the new traceState are assigned from active() of the now defunct one;
\* the streams are connected to the new active().
defunctState(a) ==
  LET target == IF a.defunctTraceState # "null" THEN a.defunctTraceState
                ELSE CHOOSE o \in StateObjects : o \notin DOMAIN a.heap
      prepared == IF a.defunctTraceState # "null"
                  THEN [a.heap[target] EXCEPT !.film = reset(@)]
                  ELSE PathTracerStateCtor(a.width, 1)
      old == a.heap[a.traceState]
      new == [prepared EXCEPT !.work.activeWork = old.work.activeWork,
                              !.work.inactiveWork = old.work.activeWork]
  IN [a EXCEPT
        !.heap = [o \in DOMAIN a.heap \cup {target} |->
                    IF o = target THEN new ELSE a.heap[o]],
        !.traceState = target,
        !.defunctTraceState = a.traceState,
        !.streamed = target]

\* The state after initialiseState for an image of one row
InitDS ==
  /\ \E w \in 1..MaxAccWidth :
       \E shuffled \in randomiseWorkList(createTracingJobs(w, 1, 1, 1)) :
         wl = [pc |-> "loop_test", iter |-> 1, restartIters |-> <<>>,
               width |-> w,
               heap |-> [o \in {"P"} |->
                           [work |-> initialiseState(shuffled),
                            film |-> AccumulatedImageCtor(w, 1)]],
               traceState |-> "P", defunctTraceState |-> "null",
               streamed |-> "P", job |-> FALSE, hostPc |-> "idle",
               task |-> [obj |-> "P", film |-> AccumulatedImageCtor(w, 1),
                         inactive |-> shuffled]]
  /\ lb = LBIdle
  /\ activeWork = <<>>
  /\ inactiveWork = <<>>
  /\ activeStore = "A"
  /\ inactiveStore = "B"
  /\ LoopIdle

\* for (step = 1; step <= steps; ++step) with a changed UI state whose
\* status is Restart
DSRestart ==
  /\ wl.pc = "loop_test"
  /\ wl.iter <= MaxIterations
  /\ Len(wl.restartIters) < MaxRestarts
  /\ wl' = [defunctState(wl) EXCEPT
              !.pc = "dispatch", !.restartIters = Append(@, wl.iter)]
  /\ UNCHANGED <<lb, workVars, loopVars>>

\* The loop test without a changed UI state, and the exit of the loop
DSLoopTest ==
  /\ wl.pc = "loop_test"
  /\ wl' = [wl EXCEPT !.pc = IF wl.iter <= MaxIterations THEN "dispatch"
                             ELSE "final_wait"]
  /\ UNCHANGED <<lb, workVars, loopVars>>

\* setup, path_trace, read_results on the connected buffer
DSDispatch ==
  /\ wl.pc = "dispatch"
  /\ LET buf == wl.heap[wl.streamed].work.activeWork
     IN wl' = [wl EXCEPT
                 !.heap[wl.streamed].work.activeWork =
                    pathTrace(buf, DeviceOutcomes(buf), 1),
                 !.pc = "wait"]
  /\ UNCHANGED <<lb, workVars, loopVars>>

\* hostProcessing.waitForCompletion(), in the loop and after it
DSWait ==
  /\ wl.pc \in {"wait", "final_wait"}
  /\ wl.job => wl.hostPc = "idle"
  /\ wl' = [wl EXCEPT !.job = FALSE,
                      !.pc = IF wl.pc = "wait" THEN "swap" ELSE "finished"]
  /\ UNCHANGED <<lb, workVars, loopVars>>

\* traceState->work.getWork().swap(); connectActiveWorkListStreams(engine);
DSSwap ==
  /\ wl.pc = "swap"
  /\ LET w == WorkListSwap(wl.heap[wl.traceState].work)
     IN wl' = [wl EXCEPT
                 !.heap[wl.traceState].work =
                    [activeWork |-> w.activeWork,
                     inactiveWork |-> w.inactiveWork,
                     activeStore |-> w.activeStore,
                     inactiveStore |-> w.inactiveStore],
                 !.streamed = wl.traceState,
                 !.pc = IF w.threw THEN "fatal" ELSE "run"]
  /\ UNCHANGED <<lb, workVars, loopVars>>

\* hostProcessing.run([&, step, workPtr = &traceState->work,
\* filmPtr = &traceState->film]() {...}) and ++step
DSRun ==
  /\ wl.pc = "run"
  /\ wl' = [wl EXCEPT
              !.job = TRUE, !.hostPc = "accumulate",
              !.task = [obj |-> wl.traceState,
                        film |-> wl.heap[wl.traceState].film,
                        inactive |-> wl.heap[wl.traceState].work.inactiveWork],
              !.iter = @ + 1, !.pc = "loop_test"]
  /\ UNCHANGED <<lb, workVars, loopVars>>

\* The host task: filmPtr->accumulate(workPtr->getWork().inactive());
DSHostAccumulate ==
  /\ wl.pc \notin {"fatal", "finished"}
  /\ wl.hostPc = "accumulate"
  /\ wl' = [wl EXCEPT
              !.heap[wl.task.obj].film =
                 accumulate(@, wl.heap[wl.task.obj].work.inactiveWork),
              !.hostPc = "idle"]
  /\ UNCHANGED <<lb, workVars, loopVars>>

NextDS ==
  \/ DSRestart
  \/ DSLoopTest
  \/ DSDispatch
  \/ DSWait
  \/ DSSwap
  \/ DSRun
  \/ DSHostAccumulate

SpecDS == InitDS /\ [][NextDS]_vars

\* ------------------------------------------------------------------------
\* Specification of the InterfaceServer state hand-over: the packet
\* handlers of the communication thread against stateChanged() and
\* consumeState() of the driver.  wl holds the position of the handler and
\* the bookkeeping: the packet types handled and the snapshots consumed.
\* ------------------------------------------------------------------------
\* the packets the client sends in one run
MaxUiPackets == 2

\* The packet types whose subscriber sets stateUpdated
Flagged == {"stop", "detach", "env_rotation", "fov", "load_nif"}

InitUI ==
  /\ wl = [handler |-> "idle", received |-> {}, consumed |-> {}, count |-> 0]
  /\ pc = "ui_test"
  /\ uiServer = TRUE
  /\ stateUpdated = FALSE
  /\ uiState = StateCtor
  /\ state = StateCtor
  /\ lb = LBIdle
  /\ activeWork = <<>>
  /\ inactiveWork = <<>>
  /\ activeStore = "A"
  /\ inactiveStore = "B"
  /\ args = [imageWidth |-> 1, imageHeight |-> 1, numTiles |-> 1,
             numWorkers |-> 1, samples |-> 1, samplesPerStep |-> 1,
             interactiveSamples |-> 1, loadBalanceEnabled |-> FALSE,
             saveInterval |-> 1, uiPort |-> 1]
  /\ step = 1
  /\ samplesPerIpuStep = 1
  /\ deviceSampleLimit = 1
  /\ streamPtr = "none"
  /\ traceBuffer = <<>>
  /\ film = <<>>
  /\ job = FALSE
  /\ hostPc = "idle"
  /\ taskStep = 0
  /\ hist = HistInit

\* if (uiServer && uiServer->stateChanged())
UIStateChanged ==
  /\ pc = "ui_test"
  /\ uiServer
  /\ stateUpdated
  /\ pc' = "consume"
  /\ UNCHANGED <<lb, wl, workVars, args, step, samplesPerIpuStep,
                 deviceSampleLimit, streamPtr, traceBuffer, film, job, hostPc,
                 taskStep, uiServer, stateUpdated, uiState, state, hist>>

\* The snapshot consumeState returned is processed: Stop and Disconnected
\* destroy the server, Restart keeps it.
UIProcess ==
  /\ pc = "process"
  /\ wl' = [wl EXCEPT !.consumed = @ \cup {state}]
  /\ IF processUserInput(state) \in {"Stop", "Disconnected"}
     THEN uiServer' = FALSE /\ pc' = "finished"
     ELSE uiServer' = uiServer /\ pc' = "ui_test"
  /\ UNCHANGED <<lb, workVars, args, step, samplesPerIpuStep,
                 deviceSampleLimit, streamPtr, traceBuffer, film, job, hostPc,
                 taskStep, stateUpdated, uiState, state, hist>>

\* A subscriber deserialises its packet into the state
UIDeserialise ==
  /\ uiServer
  /\ wl.handler = "idle"
  /\ wl.count < MaxUiPackets
  /\ \E type \in PacketTypes :
       LET rcv == Receive(uiState, type, TRUE)
       IN /\ uiState' = rcv.state
          /\ wl' = [wl EXCEPT
                      !.handler = IF rcv.updated THEN "flag" ELSE "idle",
                      !.received = @ \cup {type},
                      !.count = @ + 1]
  /\ UNCHANGED <<lb, workVars, args, pc, step, samplesPerIpuStep,
                 deviceSampleLimit, streamPtr, traceBuffer, film, job, hostPc,
                 taskStep, uiServer, stateUpdated, state, hist>>

\* stateUpdated = true; at the end of the subscriber
UIFlag ==
  /\ wl.handler = "flag"
  /\ stateUpdated' = TRUE
  /\ wl' = [wl EXCEPT !.handler = "idle"]
  /\ UNCHANGED <<lb, workVars, args, pc, step, samplesPerIpuStep,
                 deviceSampleLimit, streamPtr, traceBuffer, film, job, hostPc,
                 taskStep, uiServer, uiState, state, hist>>

NextUI ==
  \/ UIStateChanged
  \/ ConsumeCopy
  \/ ConsumeClear
  \/ UIProcess
  \/ UIDeserialise
  \/ UIFlag

SpecUI == InitUI /\ [][NextUI]_vars

\* ------------------------------------------------------------------------
\* Specification of PathTracerApp::processUserInput with
\* PathTracerApp::loadNifModels, statement by statement.  wl holds the
\* models list, the locals of the call in progress and the bookkeeping.
\* ------------------------------------------------------------------------
\* the replicas (one NIF model each)
MaxIpus == 2
\* the snapshots processUserInput is called with in one run
MaxLoads == 2

\* The asset paths a load_nif packet names
AssetPaths == {"a", "b"}

\* Where the load throws: nowhere, in the constructor of NifModel::Data, or
\* in make_unique<NifModel> / push_back of replica c
ThrowPoints ==
  {[where |-> "none", c |-> 0], [where |-> "data", c |-> 0]}
    \cup {[where |-> "model", c |-> c] : c \in 0..MaxIpus - 1}

\* The snapshots of the UI state the driver passes in
NifSnapshots ==
  {[StateCtor EXCEPT !.stop = s, !.detach = d, !.newNif = n] :
     s \in BOOLEAN, d \in BOOLEAN, n \in AssetPaths \cup {""}}

\* The models the constructor loaded for numIpus replicas
InitialModels(numIpus) ==
  [c \in 1..numIpus |-> [data |-> "initial", name |-> c - 1]]

InitNif ==
  /\ \E n \in 1..MaxIpus :
       wl = [pc |-> "idle", models |-> InitialModels(n), numIpus |-> 0,
             assetPath |-> "", nifData |-> "", c |-> 0,
             throw |-> [where |-> "none", c |-> 0], ok |-> TRUE,
             entered |-> FALSE, status |-> "none", uploads |-> 0, loads |-> 0,
             before |-> [models |-> InitialModels(n), uploads |-> 0]]
  /\ lb = LBIdle
  /\ activeWork = <<>>
  /\ inactiveWork = <<>>
  /\ activeStore = "A"
  /\ inactiveStore = "B"
  /\ LoopIdle

\* processUserInput up to the call loadNifModels(models.size(), state.newNif)
NifProcessUserInput ==
  /\ wl.pc = "idle"
  /\ wl.loads < MaxLoads
  /\ \E st \in NifSnapshots, th \in ThrowPoints :
       LET load == ~st.stop /\ ~st.detach /\ st.newNif # ""
       IN wl' = [wl EXCEPT
                   !.pc = IF load THEN "data" ELSE "returned",
                   !.status = processUserInput(st),
                   !.entered = load,
                   !.ok = TRUE,
                   !.numIpus = Len(wl.models),
                   !.assetPath = st.newNif,
                   !.throw = IF load THEN th ELSE [where |-> "none", c |-> 0],
                   !.loads = @ + 1,
                   !.before = [models |-> wl.models, uploads |-> wl.uploads]]
  /\ UNCHANGED <<lb, workVars, loopVars>>

\* auto nifData = std::make_shared<NifModel::Data>(h5File, metaFile);
NifLoadData ==
  /\ wl.pc = "data"
  /\ wl' = IF wl.throw.where = "data"
           THEN [wl EXCEPT !.ok = FALSE, !.pc = "load_done"]
           ELSE [wl EXCEPT !.nifData = wl.assetPath, !.pc = "clear"]
  /\ UNCHANGED <<lb, workVars, loopVars>>

\* models.clear();
NifClear ==
  /\ wl.pc = "clear"
  /\ wl' = [wl EXCEPT !.models = <<>>, !.c = 0, !.pc = "push"]
  /\ UNCHANGED <<lb, workVars, loopVars>>

\* for (c < numIpus) models.push_back(std::make_unique<NifModel>(...));
\* an exception leaves the loop for the catch block, which returns false
NifPush ==
  /\ wl.pc = "push"
  /\ wl' = IF wl.c >= wl.numIpus
           THEN [wl EXCEPT !.ok = TRUE, !.pc = "load_done"]
           ELSE IF wl.throw.where = "model" /\ wl.throw.c = wl.c
           THEN [wl EXCEPT !.ok = FALSE, !.pc = "load_done"]
           ELSE [wl EXCEPT
                   !.models = Append(@, [data |-> wl.nifData, name |-> wl.c]),
                   !.c = @ + 1]
  /\ UNCHANGED <<lb, workVars, loopVars>>

\* if (loadNifModels(...)) { connectNifStreams(engine);
\* progs.run(engine, "init_nif_weights"); }  return Status::Restart;
NifReturn ==
  /\ wl.pc = "load_done"
  /\ wl' = [wl EXCEPT !.uploads = IF wl.ok THEN @ + 1 ELSE @,
                      !.pc = "returned"]
  /\ UNCHANGED <<lb, workVars, loopVars>>

\* The driver goes on and a later iteration may consume another snapshot
NifContinue ==
  /\ wl.pc = "returned"
  /\ wl.status # "Stop"
  /\ wl' = [wl EXCEPT !.pc = "idle"]
  /\ UNCHANGED <<lb, workVars, loopVars>>

NextNif ==
  \/ NifProcessUserInput
  \/ NifLoadData
  \/ NifClear
  \/ NifPush
  \/ NifReturn
  \/ NifContinue

SpecNif == InitNif /\ [][NextNif]_vars

\* ------------------------------------------------------------------------
\* Properties of allocateWorkByPathLength (checked under SpecLB)
\* ------------------------------------------------------------------------

\* The call is on a buffer of lanes x itemsPerLane items, itemsPerLane >= 1
LaneSized(s) ==
  /\ s.jobs >= 1
  /\ \E m \in 1..MaxLen + 1 : Len(s.input) = s.jobs * m

\* C1: after every call on a buffer of lanes x itemsPerLane items the
\* multiset of non padding (u,v) coordinates of the inactive buffer is the
\* one the buffer held before the call.
C1_Conservation ==
  (lb.pc = "done" /\ LaneSized(lb)) =>
    SameMultiset(Coords(inactiveWork), Coords(lb.input))

\* C6: the crossing condition is tested after every lane: no lane takes a
\* pair once longItr <= shortItr holds, the cheap cursor never passes the
\* expensive one by more than the final step, both cursors stay inside
\* [first, last] of the sorted sequence, and the flatten step writes at most
\* sorted.size() items.
C6_CursorsInBounds ==
  (LaneSized(lb) /\ lb.pc \in {"take", "check", "flatten", "assign", "done"}) =>
    /\ (lb.pc = "take" /\ lb.t > 1) => ~(lb.longItr <= lb.shortItr)
    /\ lb.shortItr <= lb.longItr + 1
    /\ InRange(lb.sorted, lb.shortItr)
    /\ InRange(lb.sorted, lb.longItr)
    /\ lb.written <= Len(lb.sorted)
    /\ ~lb.ub

\* The input classes of the termination property
AllEqualCost(buf) == \A i, j \in 1..Len(buf) : buf[i].pathLength = buf[j].pathLength

DegenerateInput(s) ==
  \/ Len(s.input) = 0
  \/ Len(s.input) = 1
  \/ Len(s.input) % 2 = 1
  \/ AllEqualCost(s.input)

\* C7: for inputs of size 0, size 1, odd length and all equal pathLength,
\* and every lane count >= 1, the call terminates normally and leaves an
\* inactive buffer of the length of its input.
C7_TerminatesSameLength ==
  DegenerateInput(lb) =>
    /\ lb.pc # "crashed"
    /\ lb.pc = "done" => Len(inactiveWork) = Len(lb.input)

\* jobs[0].getPixelCount(): the items of one lane of the buffer of the call
ItemsPerLane(s) == Len(s.input) \div s.jobs

\* C11: after every call each lane's group holds exactly itemsPerLane items
\* and lane i's segment [i*itemsPerLane, (i+1)*itemsPerLane) of the new
\* inactive buffer holds exactly the items assigned to lane i.
C11_LaneSegments ==
  (lb.pc = "done" /\ LaneSized(lb)) =>
    \A i \in 1..lb.jobs :
      /\ Len(lb.perTileWork[i]) = ItemsPerLane(lb)
      /\ SubSeq(inactiveWork, (i - 1) * ItemsPerLane(lb) + 1, i * ItemsPerLane(lb))
           = lb.perTileWork[i]

\* The pairs of the lane groups are the cheap/expensive pairs of the sorted
\* list s.sorted (to be read before the flatten step overwrites it)
PairedRoundRobin(s) ==
  \A i \in 1..s.jobs :
    /\ Len(s.perTileWork[i]) % 2 = 0
    /\ \A j \in 0..(Len(s.perTileWork[i]) \div 2) - 1 :
         LET k == j * s.jobs + (i - 1)
         IN /\ InRange(s.sorted, k)
            /\ InRange(s.sorted, Len(s.sorted) - 1 - k)
            /\ s.perTileWork[i][2 * j + 1] = s.sorted[k + 1]
            /\ s.perTileWork[i][2 * j + 2] = s.sorted[Len(s.sorted) - k]

\* C12: with S the sorted input, lane i receives in round j the pair
\* (S[j*L+i], S[n-1-(j*L+i)]), and the new inactive buffer is the lane
\* groups concatenated in lane order.
C12_RoundRobinPairing ==
  /\ (lb.pc = "flatten" /\ LaneSized(lb)) => PairedRoundRobin(lb)
  /\ (lb.pc = "done" /\ LaneSized(lb)) => inactiveWork = Flatten(lb.perTileWork)

\* The same for buffers with an even number of items per lane
C12_PairingEvenLanes ==
  (LaneSized(lb) /\ ItemsPerLane(lb) % 2 = 0) =>
    /\ lb.pc # "crashed" /\ ~lb.ub
    /\ lb.pc = "flatten" => PairedRoundRobin(lb)
    /\ lb.pc = "done" => inactiveWork = Flatten(lb.perTileWork)

\* The stable sort of buf by pathLength: the first of the cheapest items
\* comes first
RECURSIVE StableSort(_)
StableSort(buf) ==
  IF buf = <<>> THEN <<>>
  ELSE LET least == CHOOSE i \in 1..Len(buf) :
                      /\ \A j \in 1..Len(buf) : buf[i].pathLength <= buf[j].pathLength
                      /\ \A j \in 1..i - 1 : buf[j].pathLength > buf[i].pathLength
       IN <<buf[least]>> \o
          StableSort([k \in 1..Len(buf) - 1 |-> IF k < least THEN buf[k] ELSE buf[k + 1]])

\* C13: the sort step is stable: the sorted list is the input with items of
\* equal pathLength in their input order.
C13_SortIsStable ==
  (lb.pc \in {"init_itr", "take", "check", "flatten"}) => lb.sorted = StableSort(lb.input)

\* ------------------------------------------------------------------------
\* Properties of WorkList::swap (checked under SpecWL)
\* ------------------------------------------------------------------------
LastSwap == wl.hist[Len(wl.hist)]

\* C8: after a successful swap() active() holds what inactive() held before
\* and inactive() holds what active() held before; after two successful
\* swaps both buffers hold what they held before the first.
C8_SwapExchanges ==
  /\ (wl.pc = "ready" /\ Len(wl.hist) >= 1) =>
       /\ activeWork = LastSwap.inactiveWork
       /\ inactiveWork = LastSwap.activeWork
  /\ (wl.pc = "ready" /\ Len(wl.hist) >= 2) =>
       /\ activeWork = wl.hist[Len(wl.hist) - 1].activeWork
       /\ inactiveWork = wl.hist[Len(wl.hist) - 1].inactiveWork

\* Two successful swaps of two different non empty buffers have happened
C8_Witness ==
  /\ wl.pc = "ready"
  /\ Len(wl.hist) = 2
  /\ activeWork # inactiveWork
  /\ activeWork # <<>>
  /\ activeWork = wl.hist[1].activeWork

\* C9: swap() raises std::logic_error exactly when the buffer that becomes
\* active by the swap is empty, and succeeds otherwise.
C9_SwapThrowsIffEmpty ==
  (Len(wl.hist) >= 1) =>
    ((wl.pc = "threw") <=> (LastSwap.inactiveWork = <<>>))

\* A swap has failed although the buffer that was active was not empty
C9_Witness ==
  /\ wl.pc = "threw"
  /\ LastSwap.inactiveWork = <<>>
  /\ LastSwap.activeWork # <<>>

\* A swap has succeeded although the buffer that was active was empty
C9_WitnessOk ==
  /\ wl.pc = "ready"
  /\ Len(wl.hist) = 1
  /\ LastSwap.activeWork = <<>>
  /\ LastSwap.inactiveWork # <<>>

\* ------------------------------------------------------------------------
\* Properties of the render loop (checked under Spec)
\* ------------------------------------------------------------------------
InLoop == pc \notin {"start", "idle"}

\* C2: while a submitted host task has not been joined, the buffer it reads
\* and rewrites (the inactive buffer at the time of run) is touched neither
\* by the driver nor by a device dispatch, and the device programs only
\* ever read and write the active buffer.
C2_BufferOwnership ==
  InLoop =>
    /\ streamPtr = activeStore
    /\ activeStore # inactiveStore
    /\ ~hist.deviceOffActive
    /\ ~hist.conflict
    /\ job => hist.taskStore = inactiveStore

\* A batch has been dispatched while the host task of the previous
\* iteration is still rebalancing the inactive buffer
C2_Witness ==
  /\ job
  /\ hostPc = "balance"
  /\ args.loadBalanceEnabled
  /\ taskStep > 1
  /\ pc = "wait"
  /\ hist.dispatched > hist.dispatchedAtRun

\* C3: hostProcessing.run is never called while a submitted task has not
\* been joined: a waitForCompletion() has returned since the previous run(),
\* also in iterations that take the Restart or Disconnected branch.
C3_OneTaskInFlight ==
  /\ pc # "fatal"
  /\ pc = "run" => (~job /\ hist.waitSinceRun)

\* The driver is about to submit a task in an iteration that restarted the
\* render, after an earlier task was submitted and joined
C3_Witness ==
  /\ pc = "run"
  /\ hist.runs >= 1
  /\ hist.restarts >= 1
  /\ step = 1

\* The same after the UI has disconnected
C3_WitnessDisconnected ==
  /\ pc = "run"
  /\ hist.runs >= 1
  /\ args.uiPort # 0
  /\ ~uiServer

\* C4: the driver executes WorkList::swap() only when no host task is in
\* flight: the join has returned since the last run(), and the buffer a task
\* works on stays the inactive one for as long as the task is not joined.
C4_SwapOnlyWhenJoined ==
  /\ pc = "swap" => (~job /\ hostPc = "idle" /\ hist.waitSinceRun)
  /\ job => (InLoop /\ hist.taskStore = inactiveStore)

\* The driver is about to swap after it joined the task of an earlier
\* iteration
C4_Witness ==
  /\ pc = "swap"
  /\ hist.runs >= 1
  /\ hist.dispatched >= 2

\* The batch accumulated last is the batch dispatched last
LastBatchAccumulated ==
  /\ Len(hist.accumulated) = hist.dispatched
  /\ hist.dispatched > 0 => hist.accumulated[Len(hist.accumulated)] = hist.dispatched

\* C5 as stated: on both exits the last task is joined before execute
\* returns, the last dispatched batch has been accumulated and the image
\* written last contains it.
C5_LastBatchSaved ==
  pc = "finished" =>
    /\ ~job
    /\ hostPc = "idle"
    /\ LastBatchAccumulated
    /\ hist.saved = hist.dispatched

\* C5, amended: on both exits the last task is joined after the last run()
\* and before execute returns, so the last dispatched batch has been
\* accumulated; the image written last contains it when the loop ends by
\* its step count (on the Stop exit nothing is written after the loop).
C5_FinalJoin ==
  pc = "finished" =>
    /\ ~job
    /\ hostPc = "idle"
    /\ hist.waitSinceRun
    /\ LastBatchAccumulated
    /\ hist.exit = "steps" => hist.saved = hist.dispatched

\* execute has returned after a Stop from the UI; the batch dispatched last
\* is accumulated, and no image written contains it
C5_Witness ==
  /\ pc = "finished"
  /\ hist.exit = "stop"
  /\ hist.dispatched >= 1
  /\ hist.saved < hist.dispatched

\* execute has returned after the configured number of steps
C5_WitnessSteps ==
  /\ pc = "finished"
  /\ hist.exit = "steps"
  /\ hist.dispatched >= 2
  /\ hist.runs = hist.dispatched

\* C10: after initialiseState and after any sequence of batches, swaps and
\* host tasks the two buffers have the same length, numTiles x
\* maxRaysPerTile, which never changes.
C10_FixedLength ==
  InLoop =>
    /\ Len(activeWork) = Len(inactiveWork)
    /\ Len(activeWork) = args.numTiles * MaxRaysPerTile

\* A host task has rebalanced the inactive buffer of a padded work list
\* that was traced and swapped at least twice
C10_Witness ==
  /\ hostPc = "save"
  /\ args.loadBalanceEnabled
  /\ taskStep > 1
  /\ hist.dispatched >= 2
  /\ args.numTiles * MaxRaysPerTile > args.imageWidth * args.imageHeight
  /\ \E i \in 1..Len(inactiveWork) : IsPadding(inactiveWork[i])

\* C17: when the driver is about to run the device programs of a batch,
\* sampleCount and pathLength of every item of the active buffer are zero.
C17_AccumulatorsZeroAtBatchStart ==
  (pc = "dispatch") =>
    \A i \in 1..Len(activeWork) :
      activeWork[i].sampleCount = 0 /\ activeWork[i].pathLength = 0

\* Setup has completed and no batch has been dispatched yet
AfterSetup == InLoop /\ hist.dispatched = 0

\* C18: after Setup the active buffer holds every pixel of the image
\* exactly once plus numTiles x maxRaysPerTile - width x height padding
\* items at (65535,65535), every item with zero colour, sampleCount and
\* pathLength; it is a permutation of the list createTracingJobs made, and
\* the inactive buffer is an identical copy.
C18_InitialWorkList ==
  AfterSetup =>
    /\ \A c \in 0..args.imageWidth - 1, r \in 0..args.imageHeight - 1 :
         Count(activeWork, TraceRecord(c, r)) = 1
    /\ Count(activeWork, TraceRecord(dummyCoord, dummyCoord)) =
         args.numTiles * MaxRaysPerTile - args.imageWidth * args.imageHeight
    /\ Len(activeWork) = args.numTiles * MaxRaysPerTile
    /\ \A i \in 1..Len(activeWork) :
         activeWork[i] = TraceRecord(activeWork[i].u, activeWork[i].v)
    /\ SameMultiset(activeWork,
                    Flatten(createTracingJobs(args.imageWidth, args.imageHeight,
                                              args.numTiles, args.numWorkers)))
    /\ inactiveWork = activeWork

\* Setup has produced a shuffled work list of three pixels and one padding
\* item on two tiles
C18_Witness ==
  /\ AfterSetup
  /\ args.imageWidth = 3
  /\ args.numTiles = 2
  /\ Count(activeWork, TraceRecord(dummyCoord, dummyCoord)) = 1
  /\ activeWork # Flatten(createTracingJobs(args.imageWidth, args.imageHeight,
                                            args.numTiles, args.numWorkers))

\* The most recently submitted host task has passed its load balancing test
PastBalance == hist.runs > 0 /\ hostPc \in {"save", "idle"}

\* C19: the host task calls allocateWorkByPathLength if and only if load
\* balancing is enabled and the step it captured is greater than 1, where
\* the first iteration after Setup or after a Restart is step 1; the call
\* rewrites the buffer that was inactive when the task was submitted, after
\* the task has accumulated it, and that buffer with the layout the call
\* produced is the active buffer after the next swap.
C19_LoadBalanceAfterFirstStep ==
  /\ PastBalance =>
       (hist.lbInvoked <=> (args.loadBalanceEnabled /\ taskStep > 1))
  /\ hist.runs > 0 => (taskStep = 1 <=> hist.firstAtRun)
  /\ hist.lbInvoked =>
       /\ Len(hist.accumulated) = hist.runs
       /\ job => /\ hist.lbStore = hist.taskStore
                 /\ hist.lbStore = inactiveStore
                 /\ hist.lbStore # streamPtr
  /\ (pc = "run" /\ hist.lbInvoked) =>
       /\ activeStore = hist.lbStore
       /\ activeWork = hist.lbResult

\* The buffer a host task of step 2 or later rebalanced has become the
\* active buffer by the swap of the next iteration
C19_Witness ==
  /\ pc = "run"
  /\ hist.lbInvoked
  /\ hist.runs >= 2
  /\ Len(activeWork) >= 2
  /\ activeWork = hist.lbResult

\* After a Restart the host task of the restarted iteration captured step 1
\* and did not balance, although two batches had been traced before
C19_WitnessRestart ==
  /\ hostPc = "save"
  /\ args.loadBalanceEnabled
  /\ hist.restarts > 0
  /\ hist.runs >= 3
  /\ taskStep = 1
  /\ ~hist.lbInvoked

\* A stop, detach, env_rotation, fov or load_nif packet has been handled:
\* its value is in the server's state or in the driver's last snapshot
FlaggedSeen ==
  \E s \in {uiState, state} :
    s.stop \/ s.detach \/ s.envRotationDegrees # 0 \/ s.fov # 0 \/ s.newNif # ""

\* C22: as long as only exposure and gamma packets have been handled the
\* state-changed flag is false, the driver consumes nothing, and the loop
\* neither restarts (step is not reset to 1) nor stops nor loses its server;
\* a packet of any other type sets the flag, which stays set until the
\* driver consumes the state.
C22_ToneMappingPacketsDoNotRestart ==
  /\ ~FlaggedSeen =>
       /\ ~stateUpdated
       /\ hist.restarts = 0
       /\ hist.exit # "stop"
       /\ pc \notin {"consume", "consume_clear", "process"}
       /\ InLoop => uiServer = (args.uiPort # 0)
  /\ (FlaggedSeen /\ state = StateCtor) => stateUpdated

\* An exposure or gamma packet was stored and the loop went on to a later
\* step without a restart
C22_Witness ==
  /\ hist.packets = 1
  /\ uiState.exposure = 1 \/ uiState.gamma = 1
  /\ ~FlaggedSeen
  /\ step >= 2
  /\ pc = "dispatch"
  /\ hist.restarts = 0

\* execute has returned, or the process has ended by a fault
Terminated == pc \in {"finished", "crashed", "fatal"}

\* The run dispatched the least number of batches of samplesPerStep samples
\* that gives every pixel args.samples samples
ExactBatches ==
  /\ hist.dispatched * args.samplesPerStep >= args.samples
  /\ (hist.dispatched - 1) * args.samplesPerStep < args.samples

\* The position of the driver within one iteration, counted down
DriverRank ==
  CASE pc = "start" -> 12
    [] pc = "loop_test" -> 11
    [] pc = "consume" -> 10
    [] pc = "consume_clear" -> 9
    [] pc = "process" -> 8
    [] pc = "dispatch" -> 7
    [] pc = "wait" -> 6
    [] pc = "swap" -> 5
    [] pc = "run" -> 4
    [] pc = "end_iter" -> 3
    [] pc = "final_wait" -> 2
    [] OTHER -> 0

\* The position of the host task within its body, counted down
HostRank ==
  CASE hostPc = "accumulate" -> 5
    [] hostPc = "ui_test" -> 4
    [] hostPc = "ui_send" -> 3
    [] hostPc = "balance" -> 2
    [] hostPc = "save" -> 1
    [] OTHER -> 0

\* What is left of the run, in lexicographic order: the UI state changes
\* the driver may still consume (two for a packet not yet sent, one for a
\* set flag and one for a consumed snapshot not yet processed), the iterations left
\* up to steps, the statements left in the iteration, the statements left
\* in the host task
Rank ==
  LET changes == 2 * (MaxPackets - hist.packets)
                   + (IF stateUpdated THEN 1 ELSE 0)
                   + (IF pc = "process" THEN 1 ELSE 0)
      iterations == Steps + 1 - step
  IN ((changes * (MaxSteps + 2) + iterations) * 16 + DriverRank) * 8 + HostRank

\* Some thread can take its next statement: the driver, or the host task
\* (each statement of the host task is enabled at its position while the
\* process is alive)
CanStep == (ENABLED DriverThread) \/ (Alive /\ hostPc # "idle")

\* C24: the render loop terminates.  A run without Restart that leaves the
\* loop by its step count has dispatched exactly steps batches; once a Stop
\* status is consumed the driver is past the loop, where nothing is
\* dispatched or submitted; and every run ends: until it has ended some
\* thread can take a step, and every step, of a thread or of the client,
\* lowers Rank, a natural number, so that only finitely many steps fit
\* between the Restarts the client's packets cause and after the last one.
C24_LoopTerminates ==
  /\ []((pc = "finished" /\ hist.exit = "steps" /\ hist.restarts = 0) =>
         (ExactBatches /\ hist.runs = hist.dispatched))
  /\ [](hist.exit = "stop" => pc \in {"final_wait", "finished", "crashed"})
  /\ [](Terminated \/ CanStep)
  /\ [](Rank >= 0)
  /\ [][Rank' < Rank]_vars

\* A run with a Restart has left the loop by its step count after more
\* batches than steps
C24_Witness ==
  /\ pc = "finished"
  /\ hist.exit = "steps"
  /\ hist.restarts > 0
  /\ hist.dispatched > Steps

\* A run of two samples per step whose sample count was rounded up
C24_WitnessRounded ==
  /\ pc = "finished"
  /\ args.samplesPerStep = 2
  /\ args.samples = 3
  /\ hist.dispatched = 2

\* A run has ended by a consumed Stop after at least one batch
C24_WitnessStop ==
  /\ pc = "finished"
  /\ hist.exit = "stop"
  /\ hist.dispatched >= 1

Accumulated == wl.pc \in {"accumulated", "mapped", "remapped"}

\* The image before the accumulate call
FilmBefore == wl.hist[1].film

InBoundsItem(t) == InBounds(FilmBefore, t)

NotPadding(t) == ~IsPadding(t)

Named(px, traces) == \E i \in 1..Len(traces) : <<traces[i].v, traces[i].u>> = px

\* C14: accumulate raises no error and leaves every pixel unchanged for the
\* items whose column or row lies outside the image, padding included: the
\* image is the one the batch without these items gives.
C14_PaddingSkipped ==
  Accumulated =>
    /\ film.at = accumulate(FilmBefore, SelectSeq(traceBuffer, InBoundsItem)).at
    /\ film.at = accumulate(FilmBefore, SelectSeq(traceBuffer, NotPadding)).at
    /\ \A px \in DOMAIN film.at :
         ~Named(px, traceBuffer) => film.at[px] = FilmBefore.at[px]
    /\ DOMAIN film.at = DOMAIN FilmBefore.at

\* A batch with a padding item, an item beyond the last column and a pixel
\* has been accumulated into an image that was not empty
C14_Witness ==
  /\ wl.pc = "accumulated"
  /\ \E i \in 1..Len(traceBuffer) : IsPadding(traceBuffer[i])
  /\ \E i \in 1..Len(traceBuffer) : InBoundsItem(traceBuffer[i])
  /\ \E px \in DOMAIN FilmBefore.at : FilmBefore.at[px] # <<>>

\* The items of the batch have sampleCount 1 (no pixel appears twice in the
\* batches of AccInputs)
SingleSamples == \A i \in 1..Len(traceBuffer) : traceBuffer[i].sampleCount = 1

\* Every pixel of the image appears in the batch
FullBatch == \A px \in DOMAIN film.at : Named(px, traceBuffer)

ZeroFilm == \A px \in DOMAIN FilmBefore.at : FilmBefore.at[px] = <<>>

\* C15: a batch in which pixels appear once with sampleCount 1, accumulated
\* into a zero image, leaves at row v, column u the one term (b,g,r)/1 of
\* the item of that pixel, and zero at every pixel no item names.
C15_RoundTrip ==
  (Accumulated /\ ZeroFilm /\ SingleSamples) =>
    /\ \A i \in 1..Len(traceBuffer) :
         InBoundsItem(traceBuffer[i]) =>
           film.at[<<traceBuffer[i].v, traceBuffer[i].u>>] =
             <<[bgr |-> <<traceBuffer[i].b, traceBuffer[i].g, traceBuffer[i].r>>,
                sampleCount |-> 1]>>
    /\ \A px \in DOMAIN film.at : ~Named(px, traceBuffer) => film.at[px] = <<>>

\* A batch naming both pixels of a two pixel image once, with different
\* colours, has been accumulated into the zero image
C15_Witness ==
  /\ wl.pc = "accumulated"
  /\ ZeroFilm
  /\ SingleSamples
  /\ FullBatch
  /\ film.cols = 2
  /\ Len(traceBuffer) = 2

\* C16: updateLdrImage, also when called from saveImages, does not change
\* hdrImage, and a second call with the same step, exposure and gamma
\* returns the image the first call returned.
C16_ToneMapReadOnly ==
  /\ wl.pc \in {"mapped", "remapped"} =>
       film.at = wl.hist[Len(wl.hist)].film.at
  /\ (wl.pc = "remapped" /\ wl.hist[2].args = wl.hist[3].args) =>
       film.image = wl.hist[3].film.image

\* The image has been tone mapped twice with step 2 after a batch was
\* accumulated
C16_Witness ==
  /\ wl.pc = "remapped"
  /\ wl.hist[2].args = wl.hist[3].args
  /\ wl.hist[3].args.step = 2
  /\ \E px \in DOMAIN film.at : film.at[px] # <<>>

\* ------------------------------------------------------------------------
\* Properties of the InterfaceServer state hand-over (checked under SpecUI)
\* ------------------------------------------------------------------------
\* The snapshot s carries the change a packet of the given type makes
Carries(s, type) ==
  CASE type = "stop" -> s.stop
    [] type = "detach" -> s.detach
    [] type = "env_rotation" -> s.envRotationDegrees = 1
    [] type = "fov" -> s.fov = 1
    [] type = "load_nif" -> s.newNif = "nif"
    [] type = "exposure" -> s.exposure = 1
    [] OTHER -> s.gamma = 1

\* No handler is running, the driver is at its test and stateChanged() is
\* false: the driver will not call consumeState() unless a packet arrives
Quiescent ==
  /\ pc = "ui_test"
  /\ uiServer
  /\ wl.handler = "idle"
  /\ ~stateUpdated

\* C21: no flagged change is lost: when stateChanged() is false and no
\* handler is running, every stop, detach, env_rotation, fov or load_nif
\* packet handled so far has been returned by a consumeState().
C21_NoFlaggedChangeLost ==
  Quiescent =>
    \A type \in wl.received \cap Flagged :
      \E s \in wl.consumed : Carries(s, type)

\* ------------------------------------------------------------------------
\* Properties of processUserInput and loadNifModels (checked under SpecNif)
\* ------------------------------------------------------------------------
\* C23: when processUserInput has returned and the load it requested
\* failed, the models list is the one from before the call, no weights were
\* uploaded, and the status is not Stop.
C23_FailedLoadKeepsModels ==
  (wl.pc = "returned" /\ wl.entered /\ ~wl.ok) =>
    /\ wl.models = wl.before.models
    /\ wl.uploads = wl.before.uploads
    /\ wl.status # "Stop"

\* The part of C23 that holds when the load fails before models.clear()
C23_DataFailureKeepsModels ==
  (wl.pc = "returned" /\ wl.entered /\ ~wl.ok /\ wl.throw.where = "data") =>
    /\ wl.models = wl.before.models
    /\ wl.uploads = wl.before.uploads
    /\ wl.status # "Stop"

\* ------------------------------------------------------------------------
\* Properties of allocateWorkByPathLength on unbalanced work lists (SpecBal)
\* ------------------------------------------------------------------------
RECURSIVE SumPathLength(_)
SumPathLength(items) ==
  IF items = <<>> THEN 0 ELSE Head(items).pathLength + SumPathLength(Tail(items))

LaneSum(buf, lanes, k) == SumPathLength(LaneSegment(buf, Len(buf) \div lanes, k))

RECURSIVE SumOver(_, _)
SumOver(f, n) == IF n = 0 THEN 0 ELSE f[n] + SumOver(f, n - 1)

\* lanes^2 times the variance of the per lane sums of pathLength:
\* lanes * (sum of squares) - (sum)^2
ScaledVariance(buf, lanes) ==
  LET sums == [k \in 1..lanes |-> LaneSum(buf, lanes, k)]
      squares == [k \in 1..lanes |-> sums[k] * sums[k]]
  IN lanes * SumOver(squares, lanes) - SumOver(sums, lanes) * SumOver(sums, lanes)

\* C25: for a work list in which one lane holds all the items with long
\* paths and the other lanes only items with short paths (two lanes or more,
\* an even number of items per lane), the variance of the per lane sums of
\* pathLength after allocateWorkByPathLength is at most the variance before.
C25_BalanceImprovement ==
  (lb.pc = "done" /\ lb.jobs >= 2 /\ ItemsPerLane(lb) % 2 = 0) =>
    /\ inactiveWork = lb.result
    /\ ScaledVariance(inactiveWork, lb.jobs) <= ScaledVariance(lb.input, lb.jobs)

\* Three lanes: the call has moved items and the variance is strictly lower
C25_Witness ==
  /\ lb.pc = "done"
  /\ lb.jobs = 3
  /\ inactiveWork # lb.input
  /\ ScaledVariance(inactiveWork, lb.jobs) < ScaledVariance(lb.input, lb.jobs)

\* Two rounds of the distribution loop (four items per lane)
C25_WitnessTwoRounds ==
  /\ lb.pc = "done"
  /\ ItemsPerLane(lb) = 4
  /\ ScaledVariance(inactiveWork, lb.jobs) < ScaledVariance(lb.input, lb.jobs)

\* ------------------------------------------------------------------------
\* Properties of the hand-over between the driver and the host task (Spec)
\* ------------------------------------------------------------------------

\* A task has been submitted and has not returned yet
TaskInFlight == job /\ hostPc # "idle"

\* C26: between hostProcessing.run and the return of the next
\* waitForCompletion the driver does not destroy or change the server the
\* task captured by reference: while the task has not returned, no step
\* changes uiServer.
C26_CapturedServerUntouched == [][TaskInFlight => uiServer' = uiServer]_vars

\* C27: every device batch is accumulated exactly once.  The batches the
\* host tasks have accumulated are 1, 2, 3, ... in this order, each by one
\* task; the buffer a dispatch is about to overwrite holds no batch that is
\* still to be accumulated; and when the final join has returned every
\* dispatched batch has been accumulated.
C27_EachBatchAccumulatedOnce ==
  /\ Len(hist.accumulated) <= hist.dispatched
  /\ \A i \in 1..Len(hist.accumulated) : hist.accumulated[i] = i
  /\ Len(hist.accumulated) <= hist.runs
  /\ pc = "dispatch" => hist.batchOf[streamPtr] <= Len(hist.accumulated)
  /\ pc = "finished" => Len(hist.accumulated) = hist.dispatched

\* A run with a restart that has ended after three batches or more, all
\* of them accumulated
C27_Witness ==
  /\ pc = "finished"
  /\ hist.restarts > 0
  /\ hist.dispatched >= 3
  /\ Len(hist.accumulated) = hist.dispatched

\* A buffer is about to be dispatched for the second time
C27_WitnessReuse ==
  /\ pc = "dispatch"
  /\ hist.batchOf[streamPtr] > 0
  /\ args.loadBalanceEnabled

\* C28: in every buffer a host task passes to accumulate during the render
\* loop, with or without load balancing and after any number of rebalances,
\* no two items carry the same in bounds (u,v) coordinate.
C28_AccumulatedPixelsDistinct ==
  (job /\ hostPc = "accumulate") => DistinctPixels(film, inactiveWork)

\* C29: whenever accumulate processes an in bounds item in the render loop
\* its sampleCount is at least 1, for every number of batches and of samples
\* per batch.
C29_SampleCountPositive ==
  (job /\ hostPc = "accumulate") =>
    \A i \in 1..Len(inactiveWork) :
      InBounds(film, inactiveWork[i]) => inactiveWork[i].sampleCount >= 1

\* C30: the two buffers strictly alternate.  Batch k is written to the
\* buffer that holds batch k - 2 (the other one holds batch k - 1); host
\* task k accumulates, and rebalances if enabled, the buffer of batch k;
\* while task k has not been joined the streams point at the other buffer,
\* so the layout the device runs as batch k + 1 is not the one task k
\* modifies; the layout task k computed is the one about to be swapped in,
\* and the buffer of batch k is dispatched next as batch k + 2.
C30_BuffersAlternate ==
  /\ hist.dispatched >= 1 =>
       \E s \in Stores :
         /\ hist.batchOf[s] = hist.dispatched
         /\ \A t \in Stores \ {s} : hist.batchOf[t] = hist.dispatched - 1
  /\ pc = "dispatch" => hist.batchOf[streamPtr] = Max(hist.dispatched - 1, 0)
  /\ job =>
       /\ hist.taskStore = inactiveStore
       /\ hist.batchOf[hist.taskStore] = hist.runs
       /\ streamPtr # hist.taskStore
       /\ hist.lbInvoked => hist.lbStore = hist.taskStore
  /\ (pc = "swap" /\ hist.lbInvoked /\ hist.lbResult # <<>>) =>
       /\ hist.lbStore = inactiveStore
       /\ inactiveWork = hist.lbResult
       /\ hist.batchOf[inactiveStore] = hist.dispatched - 1

\* The device has run batch k + 1 while host task k, which has rebalanced
\* the buffer of batch k, is not joined yet
C30_Witness ==
  /\ pc = "wait"
  /\ job
  /\ hist.lbInvoked
  /\ hist.lbResult # <<>>
  /\ hist.dispatched = hist.runs + 1
  /\ hist.dispatched >= 3

====
